---------------------------- MODULE Spec2Model ----------------------------
(***************************************************************************)
(* Unix-domain stream sockets over Winsock (src/sys/windows/ext/net.rs):   *)
(* the sockaddr_un codec, the connect/bind/listen/accept lifecycle, the    *)
(* byte stream, timeouts and the Incoming iterator.                        *)
(***************************************************************************)
EXTENDS Integers, Sequences, FiniteSets, TLC

(***************************************************************************)
(* Layout of netc::sockaddr_un { sun_family: u16, sun_path: [CHAR; 108] }  *)
(***************************************************************************)
SUN_PATH_LEN == 108

AF_UNIX == 1

\* byte offset of sun_path inside sockaddr_un: the width of sa_family_t (u16)
sun_path_offset == 2

\* mem::size_of::<netc::sockaddr_un>()
SIZEOF_SOCKADDR_UN == sun_path_offset + SUN_PATH_LEN

(***************************************************************************)
(* Bounds of the checked inputs                                            *)
(***************************************************************************)
\* longest prefix / suffix put around the filler of an input path
MaxAffix == 2

\* bytes a path is made of: NUL, 'a' and 0xED (a lone 0xED is not UTF-8)
PathBytes == {0, 97, 237}

\* k filler bytes 'b'
Pad(k) == [i \in 1..k |-> 98]

\* filler lengths: short paths, and paths around the capacity of sun_path
PadLens == {0, SUN_PATH_LEN - 3, SUN_PATH_LEN - 1}

SeqUpTo(S, n) == UNION {[1..k -> S] : k \in 0..n}

Affixes == SeqUpTo(PathBytes, MaxAffix)

Paths == {pre \o Pad(k) \o post : pre \in Affixes, k \in PadLens, post \in Affixes}

(***************************************************************************)
(* io::Result values                                                       *)
(***************************************************************************)
Err(kind, msg) == [ok |-> FALSE, kind |-> kind, msg |-> msg]

None == [some |-> FALSE]

Some(v) == [some |-> TRUE, val |-> v]

(***************************************************************************)
(* AddressCodec                                                            *)
(***************************************************************************)
\* mem::zeroed::<netc::sockaddr_un>()
ZeroedAddr == [sun_family |-> 0, sun_path |-> [i \in 1..SUN_PATH_LEN |-> 0]]

\* str::from_utf8 on the bytes of PathBytes and the filler: ASCII is UTF-8, 0xED
\* needs two continuation bytes that no input holds
IsUtf8(bytes) == \A i \in 1..Len(bytes) : bytes[i] < 128

\* Path::to_str
to_str(p) == IF IsUtf8(p) THEN Some(p) ELSE None

\* bytes.contains(&0)
Contains0(bytes) == \E i \in 1..Len(bytes) : bytes[i] = 0

\* sockaddr_un with the advertised length never counting the terminator
sockaddr_un_NoTerminator(p) ==
    IF ~to_str(p).some
    THEN Err("InvalidInput", "path contains invalid characters")
    ELSE IF Contains0(p)
    THEN Err("InvalidInput", "paths may not contain interior null bytes")
    ELSE IF Len(p) >= SUN_PATH_LEN
    THEN Err("InvalidInput", "path must be shorter than SUN_LEN")
    ELSE [ok |-> TRUE,
          addr |-> [sun_family |-> AF_UNIX,
                    sun_path |-> [i \in 1..SUN_PATH_LEN |->
                                     IF i <= Len(p) THEN p[i] ELSE 0]],
          len |-> sun_path_offset + Len(p)]

\* sockaddr_un with the length test off by one (> for >=)
sockaddr_un_OffByOne(p) ==
    IF ~to_str(p).some
    THEN Err("InvalidInput", "path contains invalid characters")
    ELSE IF Contains0(p)
    THEN Err("InvalidInput", "paths may not contain interior null bytes")
    ELSE IF Len(p) > SUN_PATH_LEN
    THEN Err("InvalidInput", "path must be shorter than SUN_LEN")
    ELSE [ok |-> TRUE,
          addr |-> [sun_family |-> AF_UNIX,
                    sun_path |-> [i \in 1..SUN_PATH_LEN |->
                                     IF i <= Len(p) THEN p[i] ELSE 0]],
          len |-> sun_path_offset + Len(p)
                    + (IF Len(p) = 0 \/ p[1] = 0 THEN 0 ELSE 1)]

\* sockaddr_un that looks for a zero byte only before the last byte
sockaddr_un_InteriorOnly(p) ==
    IF ~to_str(p).some
    THEN Err("InvalidInput", "path contains invalid characters")
    ELSE IF Len(p) > 0 /\ Contains0(SubSeq(p, 1, Len(p) - 1))
    THEN Err("InvalidInput", "paths may not contain interior null bytes")
    ELSE IF Len(p) >= SUN_PATH_LEN
    THEN Err("InvalidInput", "path must be shorter than SUN_LEN")
    ELSE [ok |-> TRUE,
          addr |-> [sun_family |-> AF_UNIX,
                    sun_path |-> [i \in 1..SUN_PATH_LEN |->
                                     IF i <= Len(p) THEN p[i] ELSE 0]],
          len |-> sun_path_offset + Len(p)
                    + (IF Len(p) = 0 \/ p[1] = 0 THEN 0 ELSE 1)]

\* sockaddr_un that counts a terminator for the empty path too
sockaddr_un_AlwaysTerminator(p) ==
    IF ~to_str(p).some
    THEN Err("InvalidInput", "path contains invalid characters")
    ELSE IF Contains0(p)
    THEN Err("InvalidInput", "paths may not contain interior null bytes")
    ELSE IF Len(p) >= SUN_PATH_LEN
    THEN Err("InvalidInput", "path must be shorter than SUN_LEN")
    ELSE [ok |-> TRUE,
          addr |-> [sun_family |-> AF_UNIX,
                    sun_path |-> [i \in 1..SUN_PATH_LEN |->
                                     IF i <= Len(p) THEN p[i] ELSE 0]],
          len |-> sun_path_offset + Len(p) + 1]

\* sockaddr_un that starts from a buffer of 0xCC bytes, not from a zeroed one
sockaddr_un_NotZeroed(p) ==
    IF ~to_str(p).some
    THEN Err("InvalidInput", "path contains invalid characters")
    ELSE IF Contains0(p)
    THEN Err("InvalidInput", "paths may not contain interior null bytes")
    ELSE IF Len(p) >= SUN_PATH_LEN
    THEN Err("InvalidInput", "path must be shorter than SUN_LEN")
    ELSE [ok |-> TRUE,
          addr |-> [sun_family |-> AF_UNIX,
                    sun_path |-> [i \in 1..SUN_PATH_LEN |->
                                     IF i <= Len(p) THEN p[i] ELSE 204]],
          len |-> sun_path_offset + Len(p)
                    + (IF Len(p) = 0 \/ p[1] = 0 THEN 0 ELSE 1)]

\* unsafe fn sockaddr_un(path: &Path) -> io::Result<(sockaddr_un, c_int)>
sockaddr_un(p) ==
    IF ~to_str(p).some
    THEN Err("InvalidInput", "path contains invalid characters")
    ELSE IF Contains0(p)
    THEN Err("InvalidInput", "paths may not contain interior null bytes")
    ELSE IF Len(p) >= SUN_PATH_LEN
    THEN Err("InvalidInput", "path must be shorter than SUN_LEN")
    ELSE [ok |-> TRUE,
          addr |-> [sun_family |-> AF_UNIX,
                    sun_path |-> [i \in 1..SUN_PATH_LEN |->
                                     IF i <= Len(p) THEN p[i] ELSE 0]],
          len |-> sun_path_offset + Len(p)
                    + (IF Len(p) = 0 \/ p[1] = 0 THEN 0 ELSE 1)]

\* from_parts that looks at the family before the length
from_parts_FamilyFirst(addr, len) ==
    IF addr.sun_family # AF_UNIX
    THEN Err("InvalidInput", "file descriptor did not correspond to a Unix socket")
    ELSE IF len = 0
    THEN [ok |-> TRUE, sa |-> [addr |-> addr, len |-> sun_path_offset]]
    ELSE [ok |-> TRUE, sa |-> [addr |-> addr, len |-> len]]

\* from_parts that keeps a length of zero as it is
from_parts_KeepsZero(addr, len) ==
    IF len # 0 /\ addr.sun_family # AF_UNIX
    THEN Err("InvalidInput", "file descriptor did not correspond to a Unix socket")
    ELSE [ok |-> TRUE, sa |-> [addr |-> addr, len |-> len]]

\* SocketAddr::from_parts(addr, len)
from_parts(addr, len) ==
    IF len = 0
    THEN [ok |-> TRUE, sa |-> [addr |-> addr, len |-> sun_path_offset]]
    ELSE IF addr.sun_family # AF_UNIX
    THEN Err("InvalidInput", "file descriptor did not correspond to a Unix socket")
    ELSE [ok |-> TRUE, sa |-> [addr |-> addr, len |-> len]]

\* the cfg! of a Linux build
NotLinuxOrAndroid_Linux == FALSE

\* cfg!(not(any(target_os = "linux", target_os = "android"))) of a Windows build
NotLinuxOrAndroid == TRUE

\* address() that keeps the terminating NUL in the pathname
address_KeepsTerminator(sa, overflow_checks) ==
    LET underflow == sa.len < sun_path_offset
        len == sa.len - sun_path_offset
    IN  IF underflow /\ overflow_checks THEN [kind |-> "Panic"]
        ELSE IF (~underflow /\ len = 0)
                \/ (NotLinuxOrAndroid /\ sa.addr.sun_path[1] = 0)
        THEN [kind |-> "Unnamed"]
        ELSE IF underflow \/ len > SUN_PATH_LEN THEN [kind |-> "Panic"]
        ELSE IF sa.addr.sun_path[1] = 0
        THEN [kind |-> "Abstract", name |-> SubSeq(sa.addr.sun_path, 2, len)]
        ELSE LET pathname == SubSeq(sa.addr.sun_path, 1, len)
             IN  IF IsUtf8(pathname)
                 THEN [kind |-> "Pathname", path |-> pathname]
                 ELSE [kind |-> "Panic"]

\* SocketAddr::address: the AddressKind of a SocketAddr.  cfg!(not(linux,
\* android)) is true on this platform.  "Panic" stands for an arithmetic
\* overflow, a slice index out of range or an unwrap of invalid UTF-8.
\* overflow_checks tells a debug build (self.len - offset panics on underflow)
\* from a release build (it wraps to a huge usize).
address(sa, overflow_checks) ==
    LET underflow == sa.len < sun_path_offset
        len == sa.len - sun_path_offset
    IN  IF underflow /\ overflow_checks THEN [kind |-> "Panic"]
        ELSE IF (~underflow /\ len = 0)
                \/ (NotLinuxOrAndroid /\ sa.addr.sun_path[1] = 0)
        THEN [kind |-> "Unnamed"]
        ELSE IF underflow \/ len > SUN_PATH_LEN THEN [kind |-> "Panic"]
        ELSE IF sa.addr.sun_path[1] = 0
        THEN [kind |-> "Abstract", name |-> SubSeq(sa.addr.sun_path, 2, len)]
        ELSE LET pathname == SubSeq(sa.addr.sun_path, 1, len - 1)
             IN  IF IsUtf8(pathname)
                 THEN [kind |-> "Pathname", path |-> pathname]
                 ELSE [kind |-> "Panic"]

\* SocketAddr::is_unnamed
is_unnamed(sa, oc) == address(sa, oc).kind = "Unnamed"

\* SocketAddr::as_pathname
as_pathname(sa, oc) ==
    LET a == address(sa, oc)
    IN  IF a.kind = "Pathname" THEN Some(a.path) ELSE None


\* impl fmt::Debug for SocketAddr: what fmt writes, or the panic of address()
Debug_fmt(sa, oc) ==
    LET a == address(sa, oc)
    IN  CASE a.kind = "Panic" -> [panic |-> TRUE]
          [] a.kind = "Unnamed" -> [panic |-> FALSE, val |-> <<"(unnamed)">>]
          [] a.kind = "Abstract" -> [panic |-> FALSE, val |-> <<a.name, " (abstract)">>]
          [] a.kind = "Pathname" -> [panic |-> FALSE, val |-> <<a.path, " (pathname)">>]

(***************************************************************************)
(* What a native call can hand to SocketAddr::new                          *)
(***************************************************************************)
\* family tags a native call can report: unspecified, AF_UNIX, AF_INET
Families == {0, AF_UNIX, 2}

\* the buffer SocketAddr::new zeroes, after the native call wrote a family and
\* the first bytes of a path into it
FilledAddr(fam, bytes) ==
    [sun_family |-> fam,
     sun_path |-> [i \in 1..SUN_PATH_LEN |-> IF i <= Len(bytes) THEN bytes[i] ELSE 0]]

\* buffers: short paths followed by zeroes, and a path filling the whole field
DecodeAddrs ==
    {FilledAddr(fam, a) : fam \in Families, a \in Affixes \cup {Pad(SUN_PATH_LEN)}}

\* reported lengths: none, inside the header, the header, short paths, the
\* whole structure
DecodeLens ==
    {0, 1, sun_path_offset, sun_path_offset + 1, sun_path_offset + 2,
     sun_path_offset + 3, SIZEOF_SOCKADDR_UN}

\* lengths getsockname, getpeername and accept report: nothing at all, or a
\* header followed by part of the path field
NativeCanReturn(addr, len) ==
    len = 0 \/ (sun_path_offset <= len /\ len <= SIZEOF_SOCKADDR_UN)

(***************************************************************************)
(* Bounds and inputs of the socket model                                   *)
(***************************************************************************)
\* native sockets that can exist at once
MaxSocks == 3

\* UnixStream / UnixListener values that can exist at once
MaxHandles == MaxSocks + 1

\* connections made in one run
MaxConns == MaxSocks - 1

\* steps taken on one Incoming iterator
MaxYields == MaxConns + 2

\* bytes written in one run, and the longest buffer given to one write or read
MaxStream == 2

\* bytes a socket holds for its reader before a sender has to wait
RcvBuf == MaxStream

SockIds == 1..MaxSocks

\* the two ends of every connection: the connecting and the accepted socket
Ends == (1..MaxConns) \X {"c", "s"}

OtherSide(side) == IF side = "c" THEN "s" ELSE "c"

\* bytes carried by the streams: 'h' and 'w'
DataBytes == {104, 119}

\* the buffers given to write
Bufs == SeqUpTo(DataBytes, MaxStream) \ {<<>>}

\* the path the byte-stream and timeout runs bind and connect: "a"
IoPaths == {<<97>>}

\* Option<Duration> values given to the timeout setters, in seconds
Timeouts == {None, Some(0), Some(1), Some(2)}

\* paths at the edges of what sockaddr_un takes: "a", "\0a", 108 and 109
\* bytes, and 108 bytes that are not text
EdgePaths ==
    {<<97>>, <<0, 97>>, Pad(SUN_PATH_LEN), Pad(SUN_PATH_LEN + 1),
     <<237>> \o Pad(SUN_PATH_LEN - 1)}

HandleIds == 1..MaxHandles

\* paths given to bind and connect: "", "a", "c"
NetPaths == {<<>>, <<97>>, <<99>>}

SetMin(S) == CHOOSE x \in S : \A y \in S : x <= y

(***************************************************************************)
(* The native layer: Winsock sockets addressed by AF_UNIX names, and the   *)
(* Socket wrapper of sys::net.  A socket's name is the path given to bind, *)
(* reported with its terminator counted in the length; an unbound socket   *)
(* has no name.                                                            *)
(***************************************************************************)
NoName == [bound |-> FALSE, path |-> <<>>, len |-> 0]

FreeSock ==
    [st |-> "free",          \* "free", "raw", "listening", "connected"
     refs |-> 0,             \* open handles (SOCKETs) of this socket
     name |-> NoName,        \* local name
     peername |-> NoName,    \* name of the other end of a connection
     peer |-> 0,             \* socket id of the other end, 0 when none or closed
     eof |-> FALSE,          \* the other end has been closed
     conn |-> 0,             \* history: serial number of the connection
     side |-> "",            \* history: "c" connecting end, "s" accepted end
     cap |-> 0,              \* backlog given to listen
     backlog |-> <<>>,       \* completed connections waiting for accept
     queued |-> <<>>,        \* history: serials of the connections queued here
     taken |-> <<>>,         \* history: serials of the connections accepted here
     nonblocking |-> FALSE,  \* FIONBIO
     set_nb |-> FALSE,       \* history: the mode last asked for
     rcvtimeo |-> None,      \* SO_RCVTIMEO
     sndtimeo |-> None,      \* SO_SNDTIMEO
     set_rd |-> None,        \* history: read timeout last set with success
     set_wr |-> None,        \* history: write timeout last set with success
     shut_rd |-> FALSE,      \* receiving has been shut down
     shut_wr |-> FALSE,      \* sending has been shut down
     rx |-> <<>>]            \* bytes received and not yet read

NoHandle == [kind |-> "none", sock |-> 0, via |-> "none", path |-> <<>>]

\* the C string held in a sun_path: the bytes before the first NUL
RECURSIVE StrLen(_, _)
StrLen(bytes, n) ==
    IF n >= Len(bytes) \/ bytes[n + 1] = 0 THEN n ELSE StrLen(bytes, n + 1)

CStr(sun_path) == SubSeq(sun_path, 1, StrLen(sun_path, 0))

\* the name the platform reads from (addr, len): the path bytes the length
\* covers, up to their first NUL
KernelName(addr, len) ==
    LET n == len - sun_path_offset
        m == IF n < 0 THEN 0 ELSE IF n > SUN_PATH_LEN THEN SUN_PATH_LEN ELSE n
    IN  CStr(SubSeq(addr.sun_path, 1, m))

\* the buffer getsockname / getpeername / accept fill in for a bound name
NameBuf(name) ==
    [sun_family |-> AF_UNIX,
     sun_path |-> [i \in 1..SUN_PATH_LEN |->
                      IF i <= Len(name.path) THEN name.path[i] ELSE 0]]

\* what the platform may report for a socket without a name: no bytes at all,
\* the family alone, or the whole structure with a zeroed path
UnnamedForms ==
    {[addr |-> ZeroedAddr, len |-> 0],
     [addr |-> [ZeroedAddr EXCEPT !.sun_family = AF_UNIX], len |-> sun_path_offset],
     [addr |-> [ZeroedAddr EXCEPT !.sun_family = AF_UNIX], len |-> SIZEOF_SOCKADDR_UN]}

\* the (buffer, length) pairs the platform may report for a name
NameForms(name) ==
    IF name.bound THEN {[addr |-> NameBuf(name), len |-> name.len]}
    ELSE UnnamedForms

VARIABLES
    pc,        \* codec driver: "idle", "encoded", "decoded"
    path,      \* the path last given to sockaddr_un
    enc,       \* the result of sockaddr_un(path)
    dec,       \* the result of from_parts on the encoded (buffer, length)
    wsa,       \* how many times init() has started the socket subsystem
    fs,        \* names that exist in the file system (socket files)
    socks,     \* the native sockets
    handles,   \* the UnixStream and UnixListener values alive
    nconn,     \* history: connections made so far
    sent,      \* history: per end, the bytes the writes towards it reported sent
    got,       \* history: per end, the bytes its reads returned, in order, each
               \* with how the handle that read it was made
    inflight,  \* the listener handle an accept call is waiting on, 0 when none
    incoming,  \* the Incoming iterator alive: its listener handle (0 when there
               \* is none) and, as history, whether each of its steps yielded
               \* "ok" or "err"
    ret        \* the last operation and what it returned

codecVars == <<pc, path, enc, dec>>

netVars == <<wsa, fs, socks, handles, nconn, sent, got, inflight, incoming, ret>>

vars == <<pc, path, enc, dec, wsa, fs, socks, handles, nconn, sent, got, inflight,
         incoming, ret>>

NoIncoming == [listener |-> 0, yields |-> <<>>]

NoRet == [op |-> "none", h |-> 0, arg |-> <<>>, res |-> None, calls |-> <<>>]

\* no socket has been made and no path encoded
Init ==
    /\ pc = "idle"
    /\ path = <<>>
    /\ enc = None
    /\ dec = None
    /\ wsa = 0
    /\ fs = {}
    /\ socks = [s \in SockIds |-> FreeSock]
    /\ handles = [h \in HandleIds |-> NoHandle]
    /\ nconn = 0
    /\ sent = [e \in Ends |-> <<>>]
    /\ got = [e \in Ends |-> <<>>]
    /\ inflight = 0
    /\ incoming = NoIncoming
    /\ ret = NoRet

(***************************************************************************)
(* The codec on its own                                                    *)
(***************************************************************************)
\* encode: sockaddr_un(p)
Encode(p) ==
    /\ pc = "idle"
    /\ pc' = "encoded"
    /\ path' = p
    /\ enc' = sockaddr_un(p)
    /\ dec' = None
    /\ UNCHANGED netVars

\* decode: SocketAddr::from_parts on what the encoder returned
Decode ==
    /\ pc = "encoded"
    /\ enc.ok
    /\ pc' = "decoded"
    /\ dec' = from_parts(enc.addr, enc.len)
    /\ UNCHANGED <<path, enc>>
    /\ UNCHANGED netVars

\* the caller is done with the result
Forget ==
    /\ pc \in {"encoded", "decoded"}
    /\ pc' = "idle"
    /\ path' = <<>>
    /\ enc' = None
    /\ dec' = None
    /\ UNCHANGED netVars

NextCodec ==
    \/ \E p \in Paths : Encode(p)
    \/ Decode
    \/ Forget

SpecCodec == Init /\ [][NextCodec]_vars


(***************************************************************************)
(* Decoding on its own                                                     *)
(***************************************************************************)
\* SocketAddr::from_parts on a buffer and a length a native call reported
FromParts(addr, len) ==
    /\ pc = "idle"
    /\ pc' = "parsed"
    /\ enc' = [ok |-> TRUE, addr |-> addr, len |-> len]
    /\ dec' = from_parts(addr, len)
    /\ ret' = NoRet
    /\ UNCHANGED <<path, wsa, fs, socks, handles, nconn, sent, got, inflight, incoming>>

\* a method of the SocketAddr that from_parts returned; oc is the build's
\* overflow-checks setting
Query(op, res) ==
    /\ pc = "parsed"
    /\ dec.ok
    /\ ret' = [NoRet EXCEPT !.op = op, !.res = res]
    /\ UNCHANGED <<codecVars, wsa, fs, socks, handles, nconn, sent, got, inflight, incoming>>

\* addr.is_unnamed()
IsUnnamed(oc) ==
    Query("is_unnamed",
          IF address(dec.sa, oc).kind = "Panic" THEN [panic |-> TRUE]
          ELSE [panic |-> FALSE, val |-> is_unnamed(dec.sa, oc)])

\* addr.as_pathname()
AsPathname(oc) ==
    Query("as_pathname",
          IF address(dec.sa, oc).kind = "Panic" THEN [panic |-> TRUE]
          ELSE [panic |-> FALSE, val |-> as_pathname(dec.sa, oc)])

\* format!("{:?}", addr)
Fmt(oc) == Query("fmt", Debug_fmt(dec.sa, oc))

\* the SocketAddr, or the error, goes out of scope
Discard ==
    /\ pc = "parsed"
    /\ pc' = "idle"
    /\ enc' = None
    /\ dec' = None
    /\ ret' = NoRet
    /\ UNCHANGED <<path, wsa, fs, socks, handles, nconn, sent, got, inflight, incoming>>

NextDecode ==
    \/ \E addr \in DecodeAddrs, len \in DecodeLens : FromParts(addr, len)
    \/ \E oc \in BOOLEAN : IsUnnamed(oc)
    \/ \E oc \in BOOLEAN : AsPathname(oc)
    \/ \E oc \in BOOLEAN : Fmt(oc)
    \/ Discard

SpecDecode == Init /\ [][NextDecode]_vars

(***************************************************************************)
(* Native calls (Winsock) and the Socket wrapper (sys::net::Socket)        *)
(***************************************************************************)
\* init() that starts the subsystem on every call
init_EveryCall(started) == started + 1

\* sys::net::init(): starts the socket subsystem unless an earlier call did
init(started) == IF started = 0 THEN 1 ELSE started

\* backlog given to listen by UnixListener::bind
BACKLOG == 128

FreeSocks(S) == {s \in SockIds : S[s].st = "free"}

FreeHandles == {h \in HandleIds : handles[h].kind = "none"}

StreamHandles == {h \in HandleIds : handles[h].kind = "stream"}

SeqRange(q) == {q[i] : i \in 1..Len(q)}

\* Socket::new_raw(AF_UNIX, SOCK_STREAM): a fresh socket with one handle
Socket_new_raw(S, s) == [S EXCEPT ![s] = [FreeSock EXCEPT !.st = "raw", !.refs = 1]]

\* closesocket that tells the other end nothing
CloseSock_NoEof(S, s) ==
    LET gone == {s} \cup SeqRange(S[s].backlog)
    IN  [t \in SockIds |->
            IF t \in gone THEN FreeSock
            ELSE IF S[t].peer \in gone THEN [S[t] EXCEPT !.peer = 0]
            ELSE S[t]]

\* closesocket on the last handle: the socket goes away, with the connections
\* still waiting in its backlog; the other end of each sees end-of-stream
CloseSock(S, s) ==
    LET gone == {s} \cup SeqRange(S[s].backlog)
    IN  [t \in SockIds |->
            IF t \in gone THEN FreeSock
            ELSE IF S[t].peer \in gone THEN [S[t] EXCEPT !.peer = 0, !.eof = TRUE]
            ELSE S[t]]

\* Drop for Socket that closes the socket whatever handles remain
Socket_drop_ClosesSocket(S, s) == CloseSock(S, s)

\* Drop for Socket: closesocket on one handle
Socket_drop(S, s) ==
    IF S[s].refs <= 1 THEN CloseSock(S, s)
    ELSE [S EXCEPT ![s].refs = @ - 1]

\* winsock2::bind: gives the socket the name held in (addr, len) and makes the
\* socket file; an empty name or an existing file is refused
NativeBind(S, F, s, addr, len) ==
    LET nm == KernelName(addr, len)
    IN  IF nm = <<>>
        THEN Err("InvalidInput", "WSAEINVAL")
        ELSE IF nm \in F
        THEN Err("AddrInUse", "WSAEADDRINUSE")
        ELSE [ok |-> TRUE,
              socks |-> [S EXCEPT ![s].name =
                            [bound |-> TRUE, path |-> nm,
                             len |-> sun_path_offset + Len(nm) + 1]],
              fs |-> F \cup {nm}]

\* winsock2::listen
NativeListen(S, s, backlog) ==
    [ok |-> TRUE, socks |-> [S EXCEPT ![s].st = "listening", ![s].cap = backlog]]

\* the listening sockets bound to the name held in (addr, len)
ListenersAt(S, addr, len) ==
    {l \in SockIds : /\ S[l].st = "listening"
                     /\ KernelName(addr, len) # <<>>
                     /\ S[l].name.path = KernelName(addr, len)}

\* winsock2::connect: with a listener at the name, the connection is made at
\* once: its server end waits in the listener's backlog for accept
NativeConnect(S, s, addr, len, serial) ==
    LET ls == ListenersAt(S, addr, len)
    IN  IF ls = {}
        THEN Err("ConnectionRefused", "WSAECONNREFUSED")
        ELSE LET l == CHOOSE x \in ls : TRUE
                 t == SetMin(FreeSocks(S))
             IN  [ok |-> TRUE,
                  socks |-> [S EXCEPT
                     ![s] = [@ EXCEPT !.st = "connected", !.peer = t,
                                      !.peername = S[l].name, !.conn = serial,
                                      !.side = "c"],
                     ![t] = [FreeSock EXCEPT !.st = "connected", !.peer = s,
                                      !.name = S[l].name, !.peername = S[s].name,
                                      !.conn = serial, !.side = "s"],
                     ![l] = [@ EXCEPT !.backlog = Append(@, t),
                                      !.queued = Append(@, serial)]]]

\* Socket::accept: what the native accept may return on listening socket l.
\* A blocking accept waits for a connection: it has no outcome while none is
\* pending.  The address reported is the connecting socket's own name.
NativeAcceptOutcomes(S, l) ==
    IF S[l].backlog = <<>>
    THEN IF S[l].nonblocking THEN {Err("WouldBlock", "WSAEWOULDBLOCK")} ELSE {}
    ELSE LET t == Head(S[l].backlog)
         IN  {[ok |-> TRUE, sock |-> t, addr |-> f.addr, len |-> f.len,
               socks |-> [S EXCEPT ![l].backlog = Tail(@),
                                   ![l].taken = Append(@, S[t].conn),
                                   ![t].refs = 1]] :
                 f \in NameForms(S[t].peername)}

\* winsock2::getsockname through cvt
NativeGetsockname(S, s) ==
    {[ok |-> TRUE, addr |-> f.addr, len |-> f.len] : f \in NameForms(S[s].name)}

\* winsock2::getpeername through cvt
NativeGetpeername(S, s) ==
    IF S[s].st # "connected"
    THEN {Err("NotConnected", "WSAENOTCONN")}
    ELSE {[ok |-> TRUE, addr |-> f.addr, len |-> f.len] : f \in NameForms(S[s].peername)}

\* Socket::duplicate: one more handle of the same socket
Socket_duplicate(S, s) ==
    [ok |-> TRUE, sock |-> s, socks |-> [S EXCEPT ![s].refs = @ + 1]]

\* netc::send through cvt, on the first len bytes of buf: the platform takes
\* some of them, at least one, and queues them at the other end.  Sending
\* after a shutdown of the sending direction is an error; a blocking send
\* waits while the other end has no room: it has no outcome then.
NativeSendOutcomes(S, s, buf, len) ==
    IF S[s].st # "connected"
    THEN {Err("NotConnected", "WSAENOTCONN")}
    ELSE IF S[s].shut_wr
    THEN {Err("BrokenPipe", "WSAESHUTDOWN")}
    ELSE IF S[s].peer = 0
    THEN {Err("ConnectionReset", "WSAECONNRESET")}
    ELSE LET room == RcvBuf - Len(S[S[s].peer].rx)
         IN  IF room > 0
             THEN {[ok |-> TRUE, n |-> k,
                    socks |-> [S EXCEPT ![S[s].peer].rx = @ \o SubSeq(buf, 1, k)]] :
                      k \in 1..(IF len < room THEN len ELSE room)}
             ELSE IF S[s].nonblocking
             THEN {Err("WouldBlock", "WSAEWOULDBLOCK")}
             ELSE IF S[s].sndtimeo.some
             THEN {Err("WouldBlock", "WSAEWOULDBLOCK"), Err("TimedOut", "WSAETIMEDOUT")}
             ELSE {}

\* Socket::read into a buffer of n bytes: some of the bytes waiting, at least
\* one; 0 at end-of-stream and after a shutdown of the receiving direction;
\* an error where the call may not wait.  A blocking read without a timeout
\* waits: it has no outcome while nothing is there.
Socket_read_outcomes(S, s, n) ==
    IF S[s].rx # <<>>
    THEN {[ok |-> TRUE, data |-> SubSeq(S[s].rx, 1, k),
           socks |-> [S EXCEPT ![s].rx = SubSeq(@, k + 1, Len(@))]] :
             k \in 1..(IF n < Len(S[s].rx) THEN n ELSE Len(S[s].rx))}
    ELSE IF S[s].eof \/ S[s].shut_rd
    THEN {[ok |-> TRUE, data |-> <<>>, socks |-> S]}
    ELSE IF S[s].nonblocking
    THEN {Err("WouldBlock", "WSAEWOULDBLOCK")}
    ELSE IF S[s].rcvtimeo.some
    THEN {Err("WouldBlock", "WSAEWOULDBLOCK"), Err("TimedOut", "WSAETIMEDOUT")}
    ELSE {}

\* std::net::Shutdown
Shutdowns == {"Read", "Write", "Both"}

\* Socket::shutdown(how): the direction is shut down for every handle of the
\* socket; after Write or Both the other end reads end-of-stream
Socket_shutdown(S, s, how) ==
    IF S[s].st # "connected"
    THEN Err("NotConnected", "WSAENOTCONN")
    ELSE LET p == S[s].peer
             S1 == [S EXCEPT ![s].shut_rd = @ \/ how \in {"Read", "Both"},
                             ![s].shut_wr = @ \/ how \in {"Write", "Both"}]
         IN  [ok |-> TRUE,
              socks |-> IF p # 0 /\ how \in {"Write", "Both"}
                        THEN [S1 EXCEPT ![p].eof = TRUE]
                        ELSE S1]

\* shutdown that shuts down the sending direction whatever is asked
UnixStream_shutdown_WriteOnly(S, s, how) == Socket_shutdown(S, s, "Write")

\* UnixStream::shutdown: self.0.shutdown(how)
UnixStream_shutdown(S, s, how) == Socket_shutdown(S, s, how)

\* Socket::set_timeout(dur, kind): a zero duration is refused, None means
\* no timeout
Socket_set_timeout(S, s, dur, kind) ==
    IF dur.some /\ dur.val = 0
    THEN Err("InvalidInput", "cannot set a 0 duration timeout")
    ELSE [ok |-> TRUE,
          socks |-> IF kind = "SO_RCVTIMEO"
                    THEN [S EXCEPT ![s].rcvtimeo = dur]
                    ELSE [S EXCEPT ![s].sndtimeo = dur]]

\* Socket::timeout(kind)
Socket_timeout(S, s, kind) ==
    [ok |-> TRUE,
     val |-> IF kind = "SO_RCVTIMEO" THEN S[s].rcvtimeo ELSE S[s].sndtimeo]

\* Socket::set_nonblocking
Socket_set_nonblocking(S, s, nonblocking) ==
    [ok |-> TRUE, socks |-> [S EXCEPT ![s].nonblocking = nonblocking]]

(***************************************************************************)
(* UnixStream, UnixListener, Incoming                                      *)
(***************************************************************************)
\* <wrlen_t>::max_value(): wrlen_t is i32 on Windows
WRLEN_MAX == 2147483647

\* the end of a connection a socket is
EndOf(S, s) == <<S[s].conn, S[s].side>>

\* UnixStream::try_clone: self.0.duplicate().map(UnixStream)
UnixStream_try_clone(S, s) == Socket_duplicate(S, s)

\* the length write passes to send: cmp::min(buf.len(), wrlen_t::max_value())
UnixStream_write_len(buf) == IF Len(buf) < WRLEN_MAX THEN Len(buf) ELSE WRLEN_MAX

\* write that reports the whole buffer written whatever send took
UnixStream_write_ReportsWhole(buf, snd) ==
    IF ~snd.ok THEN snd ELSE [ok |-> TRUE, n |-> Len(buf)]

\* impl Write for &UnixStream: Ok(ret as usize) of what send returned
UnixStream_write(buf, snd) ==
    IF ~snd.ok THEN snd ELSE [ok |-> TRUE, n |-> snd.n]

\* read that returns the bytes and leaves them in the socket for the next read
UnixStream_read_Peeks(S, rd) ==
    IF ~rd.ok THEN [res |-> rd, socks |-> S]
    ELSE [res |-> [ok |-> TRUE, n |-> Len(rd.data), data |-> rd.data], socks |-> S]

\* read that takes a timed-out wait for the end of the stream
UnixStream_read_TimeoutAsEof(S, rd) ==
    IF ~rd.ok
    THEN IF rd.kind \in {"WouldBlock", "TimedOut"}
         THEN [res |-> [ok |-> TRUE, n |-> 0, data |-> <<>>], socks |-> S]
         ELSE [res |-> rd, socks |-> S]
    ELSE [res |-> [ok |-> TRUE, n |-> Len(rd.data), data |-> rd.data],
          socks |-> rd.socks]

\* impl Read for &UnixStream: self.0.read(buf)
UnixStream_read(S, rd) ==
    IF ~rd.ok THEN [res |-> rd, socks |-> S]
    ELSE [res |-> [ok |-> TRUE, n |-> Len(rd.data), data |-> rd.data],
          socks |-> rd.socks]

\* set_read_timeout that takes a zero duration for "no timeout"
UnixStream_set_read_timeout_ZeroIsNone(S, s, timeout) ==
    Socket_set_timeout(S, s,
        IF timeout.some /\ timeout.val = 0 THEN None ELSE timeout, "SO_RCVTIMEO")

\* UnixStream::set_read_timeout
UnixStream_set_read_timeout(S, s, timeout) ==
    Socket_set_timeout(S, s, timeout, "SO_RCVTIMEO")

\* set_write_timeout that sets the receive timeout
UnixStream_set_write_timeout_SetsRcv(S, s, timeout) ==
    Socket_set_timeout(S, s, timeout, "SO_RCVTIMEO")

\* UnixStream::set_write_timeout
UnixStream_set_write_timeout(S, s, timeout) ==
    Socket_set_timeout(S, s, timeout, "SO_SNDTIMEO")

\* UnixStream::read_timeout
UnixStream_read_timeout(S, s) == Socket_timeout(S, s, "SO_RCVTIMEO")

\* UnixStream::write_timeout
UnixStream_write_timeout(S, s) == Socket_timeout(S, s, "SO_SNDTIMEO")

\* try_clone that makes a second socket with a copy of the settings
UnixListener_try_clone_Copies(S, s) ==
    IF FreeSocks(S) = {}
    THEN Err("Other", "WSAEMFILE")
    ELSE LET f == SetMin(FreeSocks(S))
         IN  [ok |-> TRUE, sock |-> f,
              socks |-> [S EXCEPT ![f] = [S[s] EXCEPT !.refs = 1]]]

\* UnixListener::try_clone
UnixListener_try_clone(S, s) == Socket_duplicate(S, s)

\* set_nonblocking that passes the flag inverted
UnixListener_set_nonblocking_Inverted(S, s, nonblocking) ==
    Socket_set_nonblocking(S, s, ~nonblocking)

\* UnixListener::set_nonblocking
UnixListener_set_nonblocking(S, s, nonblocking) ==
    Socket_set_nonblocking(S, s, nonblocking)

\* what Socket::new_raw and listen may answer: success, or the platform has
\* no more sockets or buffers to give
NewRawOutcomes == {[ok |-> TRUE], Err("Other", "WSAEMFILE")}

ListenOutcomes == {[ok |-> TRUE], Err("Other", "WSAENOBUFS")}

\* the result of a step without what it carries
StepRes(r) == IF r.ok THEN [ok |-> TRUE] ELSE r

\* bind that goes on to listen whatever the native bind answered
UnixListener_bind_with_IgnoresBindError(S, F, s, p, nr, ln) ==
    IF ~nr.ok
    THEN [res |-> nr, calls |-> <<"init", "socket">>,
          steps |-> <<[step |-> "socket", res |-> nr]>>,
          socks |-> S, fs |-> F]
    ELSE
    LET S1 == Socket_new_raw(S, s)
        e == sockaddr_un(p)
        st1 == <<[step |-> "socket", res |-> [ok |-> TRUE]]>>
        st2 == Append(st1, [step |-> "encode", res |-> StepRes(e)])
    IN  IF ~e.ok
        THEN [res |-> e, calls |-> <<"init", "socket", "closesocket">>,
              steps |-> st2,
              socks |-> Socket_drop(S1, s), fs |-> F]
        ELSE LET b == NativeBind(S1, F, s, e.addr, e.len)
                 st3 == Append(st2, [step |-> "bind", res |-> StepRes(b)])
                 bs == IF b.ok THEN b ELSE [socks |-> S1, fs |-> F]
             IN  LET l == IF ln.ok THEN NativeListen(bs.socks, s, BACKLOG) ELSE ln
                          st4 == Append(st3, [step |-> "listen", res |-> StepRes(l)])
                      IN  IF ~l.ok
                          THEN [res |-> l,
                                calls |-> <<"init", "socket", "bind", "listen",
                                            "closesocket">>,
                                steps |-> st4,
                                socks |-> Socket_drop(bs.socks, s), fs |-> bs.fs]
                          ELSE [res |-> [ok |-> TRUE],
                                calls |-> <<"init", "socket", "bind", "listen">>,
                                steps |-> st4,
                                socks |-> l.socks, fs |-> bs.fs]

\* UnixListener::bind(path) with s the socket new_raw makes, nr what new_raw
\* answers and ln what listen answers: the result, the native calls made, the
\* steps taken with their results, and the native state left behind
UnixListener_bind_with(S, F, s, p, nr, ln) ==
    IF ~nr.ok
    THEN [res |-> nr, calls |-> <<"init", "socket">>,
          steps |-> <<[step |-> "socket", res |-> nr]>>,
          socks |-> S, fs |-> F]
    ELSE
    LET S1 == Socket_new_raw(S, s)
        e == sockaddr_un(p)
        st1 == <<[step |-> "socket", res |-> [ok |-> TRUE]]>>
        st2 == Append(st1, [step |-> "encode", res |-> StepRes(e)])
    IN  IF ~e.ok
        THEN [res |-> e, calls |-> <<"init", "socket", "closesocket">>,
              steps |-> st2,
              socks |-> Socket_drop(S1, s), fs |-> F]
        ELSE LET b == NativeBind(S1, F, s, e.addr, e.len)
                 st3 == Append(st2, [step |-> "bind", res |-> StepRes(b)])
             IN  IF ~b.ok
                 THEN [res |-> b, calls |-> <<"init", "socket", "bind", "closesocket">>,
                       steps |-> st3,
                       socks |-> Socket_drop(S1, s), fs |-> F]
                 ELSE LET l == IF ln.ok THEN NativeListen(b.socks, s, BACKLOG) ELSE ln
                          st4 == Append(st3, [step |-> "listen", res |-> StepRes(l)])
                      IN  IF ~l.ok
                          THEN [res |-> l,
                                calls |-> <<"init", "socket", "bind", "listen",
                                            "closesocket">>,
                                steps |-> st4,
                                socks |-> Socket_drop(b.socks, s), fs |-> b.fs]
                          ELSE [res |-> [ok |-> TRUE],
                                calls |-> <<"init", "socket", "bind", "listen">>,
                                steps |-> st4,
                                socks |-> l.socks, fs |-> b.fs]

\* UnixListener::bind(path) while the platform has sockets and buffers to give
UnixListener_bind(S, F, s, p) ==
    UnixListener_bind_with(S, F, s, p, [ok |-> TRUE], [ok |-> TRUE])

\* connect that returns a stream whatever the native connect answered
UnixStream_connect_IgnoresConnectError(S, s, p, serial) ==
    LET S1 == Socket_new_raw(S, s)
        e == sockaddr_un(p)
    IN  IF ~e.ok
        THEN [res |-> e, calls |-> <<"init", "socket", "closesocket">>,
              socks |-> Socket_drop(S1, s)]
        ELSE LET c == NativeConnect(S1, s, e.addr, e.len, serial)
             IN  [res |-> [ok |-> TRUE],
                  calls |-> <<"init", "socket", "connect">>,
                  socks |-> IF c.ok THEN c.socks ELSE S1]

\* connect that keeps its raw socket open when the path is refused
UnixStream_connect_LeaksOnEncodeError(S, s, p, serial) ==
    LET S1 == Socket_new_raw(S, s)
        e == sockaddr_un(p)
    IN  IF ~e.ok
        THEN [res |-> e, calls |-> <<"init", "socket">>, socks |-> S1]
        ELSE LET c == NativeConnect(S1, s, e.addr, e.len, serial)
             IN  IF ~c.ok
                 THEN [res |-> c, calls |-> <<"init", "socket", "connect", "closesocket">>,
                       socks |-> Socket_drop(S1, s)]
                 ELSE [res |-> [ok |-> TRUE],
                       calls |-> <<"init", "socket", "connect">>,
                       socks |-> c.socks]

\* connect that cuts a path that does not fit down to the longest accepted
UnixStream_connect_Truncates(S, s, p, serial) ==
    LET S1 == Socket_new_raw(S, s)
        e == sockaddr_un(IF Len(p) >= SUN_PATH_LEN
                         THEN SubSeq(p, 1, SUN_PATH_LEN - 1) ELSE p)
    IN  IF ~e.ok
        THEN [res |-> e, calls |-> <<"init", "socket", "closesocket">>,
              socks |-> Socket_drop(S1, s)]
        ELSE LET c == NativeConnect(S1, s, e.addr, e.len, serial)
             IN  IF ~c.ok
                 THEN [res |-> c, calls |-> <<"init", "socket", "connect", "closesocket">>,
                       socks |-> Socket_drop(S1, s)]
                 ELSE [res |-> [ok |-> TRUE],
                       calls |-> <<"init", "socket", "connect">>,
                       socks |-> c.socks]

\* connect that takes an abstract name "\0name" for the path "name"
UnixStream_connect_AbstractAsPath(S, s, p, serial) ==
    LET S1 == Socket_new_raw(S, s)
        e == sockaddr_un(IF Len(p) > 0 /\ p[1] = 0 THEN Tail(p) ELSE p)
    IN  IF ~e.ok
        THEN [res |-> e, calls |-> <<"init", "socket", "closesocket">>,
              socks |-> Socket_drop(S1, s)]
        ELSE LET c == NativeConnect(S1, s, e.addr, e.len, serial)
             IN  IF ~c.ok
                 THEN [res |-> c, calls |-> <<"init", "socket", "connect", "closesocket">>,
                       socks |-> Socket_drop(S1, s)]
                 ELSE [res |-> [ok |-> TRUE],
                       calls |-> <<"init", "socket", "connect">>,
                       socks |-> c.socks]

\* UnixStream::connect(path) with s the socket new_raw makes
UnixStream_connect(S, s, p, serial) ==
    LET S1 == Socket_new_raw(S, s)
        e == sockaddr_un(p)
    IN  IF ~e.ok
        THEN [res |-> e, calls |-> <<"init", "socket", "closesocket">>,
              socks |-> Socket_drop(S1, s)]
        ELSE LET c == NativeConnect(S1, s, e.addr, e.len, serial)
             IN  IF ~c.ok
                 THEN [res |-> c, calls |-> <<"init", "socket", "connect", "closesocket">>,
                       socks |-> Socket_drop(S1, s)]
                 ELSE [res |-> [ok |-> TRUE],
                       calls |-> <<"init", "socket", "connect">>,
                       socks |-> c.socks]

\* UnixListener::accept on one outcome of the native accept: the stream's
\* socket and the decoded address, or the error; a socket accepted with an
\* address that does not decode is dropped
UnixListener_accept(S, nat) ==
    IF ~nat.ok
    THEN [res |-> nat, socks |-> S]
    ELSE LET a == from_parts(nat.addr, nat.len)
         IN  IF ~a.ok
             THEN [res |-> a, socks |-> Socket_drop(nat.socks, nat.sock)]
             ELSE [res |-> [ok |-> TRUE, sock |-> nat.sock, addr |-> a.sa],
                   socks |-> nat.socks]

\* Incoming::next that ends the iteration on a failed accept
Incoming_next_EndsOnError(r) ==
    IF r.ok THEN Some([ok |-> TRUE, sock |-> r.sock]) ELSE None

\* Incoming::next that ends the iteration when nothing is pending
Incoming_next_NoneOnWouldBlock(r) ==
    IF r.ok THEN Some([ok |-> TRUE, sock |-> r.sock])
    ELSE IF r.kind = "WouldBlock" THEN None
    ELSE Some(r)

\* Incoming::next: Some(self.listener.accept().map(|s| s.0))
Incoming_next(r) ==
    Some(IF r.ok THEN [ok |-> TRUE, sock |-> r.sock] ELSE r)

\* SocketAddr::new(f): the native call's (buffer, length) through from_parts
SocketAddr_new(nat) ==
    IF ~nat.ok THEN nat ELSE from_parts(nat.addr, nat.len)

\* UnixListener::bind
Bind(p) ==
    /\ FreeSocks(socks) # {}
    /\ FreeHandles # {}
    /\ LET s == SetMin(FreeSocks(socks))
           h == SetMin(FreeHandles)
           r == UnixListener_bind(socks, fs, s, p)
       IN  /\ wsa' = init(wsa)
           /\ socks' = r.socks
           /\ fs' = r.fs
           /\ handles' = IF r.res.ok
                         THEN [handles EXCEPT ![h] = [kind |-> "listener", sock |-> s,
                                                      via |-> "bind", path |-> p]]
                         ELSE handles
           /\ ret' = [op |-> "bind", h |-> IF r.res.ok THEN h ELSE 0, arg |-> p,
                      res |-> r.res, calls |-> r.calls]
    /\ UNCHANGED <<nconn, sent, got, inflight, incoming, codecVars>>

\* UnixListener::bind, whatever new_raw and listen answer
BindAny(p) ==
    /\ FreeSocks(socks) # {}
    /\ FreeHandles # {}
    /\ \E nr \in NewRawOutcomes, ln \in ListenOutcomes :
          LET s == SetMin(FreeSocks(socks))
              h == SetMin(FreeHandles)
              r == UnixListener_bind_with(socks, fs, s, p, nr, ln)
          IN  /\ wsa' = init(wsa)
              /\ socks' = r.socks
              /\ fs' = r.fs
              /\ handles' = IF r.res.ok
                            THEN [handles EXCEPT ![h] = [kind |-> "listener", sock |-> s,
                                                         via |-> "bind", path |-> p]]
                            ELSE handles
              /\ ret' = [op |-> "bind", h |-> IF r.res.ok THEN h ELSE 0, arg |-> p,
                         res |-> r.res, calls |-> r.calls, steps |-> r.steps]
    /\ UNCHANGED <<nconn, sent, got, inflight, incoming, codecVars>>

\* UnixStream::connect.  A blocking connect waits while the backlog is full.
Connect(p) ==
    /\ Cardinality(FreeSocks(socks)) >= 2
    /\ FreeHandles # {}
    /\ nconn < MaxConns
    /\ \A l \in SockIds :
          (socks[l].st = "listening" /\ socks[l].name.path = p)
              => Len(socks[l].backlog) < socks[l].cap
    /\ LET s == SetMin(FreeSocks(socks))
           h == SetMin(FreeHandles)
           r == UnixStream_connect(socks, s, p, nconn + 1)
       IN  /\ wsa' = init(wsa)
           /\ socks' = r.socks
           /\ handles' = IF r.res.ok
                         THEN [handles EXCEPT ![h] = [kind |-> "stream", sock |-> s,
                                                      via |-> "connect", path |-> p]]
                         ELSE handles
           /\ nconn' = IF r.res.ok THEN nconn + 1 ELSE nconn
           /\ ret' = [op |-> "connect", h |-> IF r.res.ok THEN h ELSE 0, arg |-> p,
                      res |-> r.res, calls |-> r.calls]
    /\ UNCHANGED <<fs, sent, got, inflight, incoming, codecVars>>

\* what one accept on listener l does when it returns, for
\* UnixListener::accept (op = "accept") and for Incoming::next (op = "next")
AcceptOutcome(l, op) ==
    /\ handles[l].kind = "listener"
    /\ FreeHandles # {}
    /\ \E nat \in NativeAcceptOutcomes(socks, handles[l].sock) :
          LET r == UnixListener_accept(socks, nat)
              h == SetMin(FreeHandles)
          IN  /\ socks' = r.socks
              /\ handles' = IF r.res.ok
                            THEN [handles EXCEPT ![h] =
                                     [kind |-> "stream", sock |-> r.res.sock,
                                      via |-> "accept", path |-> handles[l].path]]
                            ELSE handles
              /\ ret' = [op |-> op, h |-> l, arg |-> IF r.res.ok THEN <<h>> ELSE <<>>,
                         res |-> IF op = "next" THEN Incoming_next(r.res) ELSE r.res,
                         calls |-> <<"accept">>]
    /\ UNCHANGED <<wsa, fs, nconn, sent, got, codecVars>>

\* one accept on listener l, call and return in one step
AcceptStep(l, op) ==
    /\ inflight = 0
    /\ AcceptOutcome(l, op)
    /\ UNCHANGED <<inflight, incoming>>

\* UnixListener::accept
Accept(l) == AcceptStep(l, "accept")

\* UnixListener::accept is called on l: the caller waits in the native accept
AcceptCall(l) ==
    /\ handles[l].kind = "listener"
    /\ inflight = 0
    /\ inflight' = l
    /\ ret' = NoRet
    /\ UNCHANGED <<wsa, fs, socks, handles, nconn, sent, got, incoming, codecVars>>

\* the accept call in progress returns
AcceptReturn ==
    /\ inflight # 0
    /\ AcceptOutcome(inflight, "accept")
    /\ inflight' = 0
    /\ UNCHANGED incoming

\* UnixListener::incoming: an iterator that borrows listener l
Incoming(l) ==
    /\ handles[l].kind = "listener"
    /\ incoming.listener = 0
    /\ incoming' = [listener |-> l, yields |-> <<>>]
    /\ ret' = NoRet
    /\ UNCHANGED <<wsa, fs, socks, handles, nconn, sent, got, inflight, codecVars>>

\* Incoming::next on the iterator alive
IterNext ==
    /\ incoming.listener # 0
    /\ Len(incoming.yields) < MaxYields
    /\ AcceptOutcome(incoming.listener, "next")
    /\ incoming' = [incoming EXCEPT !.yields =
                       Append(@, IF ret'.res.some /\ ret'.res.val.ok
                                 THEN "ok" ELSE "err")]
    /\ UNCHANGED inflight

\* Incoming::next on listener.incoming()
IncomingNext(l) == AcceptStep(l, "next")

\* UnixStream::local_addr and UnixListener::local_addr
LocalAddr(h) ==
    /\ handles[h].kind # "none"
    /\ \E nat \in NativeGetsockname(socks, handles[h].sock) :
          ret' = [op |-> "local_addr", h |-> h, arg |-> <<>>,
                  res |-> SocketAddr_new(nat), calls |-> <<"getsockname">>]
    /\ UNCHANGED <<wsa, fs, socks, handles, nconn, sent, got, inflight, incoming, codecVars>>

\* UnixStream::peer_addr
PeerAddr(h) ==
    /\ handles[h].kind = "stream"
    /\ \E nat \in NativeGetpeername(socks, handles[h].sock) :
          ret' = [op |-> "peer_addr", h |-> h, arg |-> <<>>,
                  res |-> SocketAddr_new(nat), calls |-> <<"getpeername">>]
    /\ UNCHANGED <<wsa, fs, socks, handles, nconn, sent, got, inflight, incoming, codecVars>>

\* UnixListener::set_nonblocking, while no accept waits on the listener
SetNonblocking(h, b) ==
    /\ handles[h].kind = "listener"
    /\ inflight = 0
    /\ LET s == handles[h].sock
           r == UnixListener_set_nonblocking(socks, s, b)
       IN  socks' = IF r.ok THEN [r.socks EXCEPT ![s].set_nb = b] ELSE socks
    /\ ret' = NoRet
    /\ UNCHANGED <<wsa, fs, handles, nconn, sent, got, inflight, incoming, codecVars>>

\* a UnixStream or UnixListener goes out of scope; a listener borrowed by an
\* accept call in progress or by an iterator does not
DropAs(h, r) ==
    /\ handles[h].kind # "none"
    /\ h # inflight
    /\ h # incoming.listener
    /\ socks' = Socket_drop(socks, handles[h].sock)
    /\ handles' = [handles EXCEPT ![h] = NoHandle]
    /\ ret' = r
    /\ UNCHANGED <<wsa, fs, nconn, sent, got, inflight, incoming, codecVars>>

Drop(h) == DropAs(h, NoRet)

\* drop(handle) called by the program: the same, and the call is on record
Close(h) ==
    DropAs(h, [op |-> "drop", h |-> h, arg |-> <<handles[h].sock>>,
               res |-> [ok |-> TRUE], calls |-> <<"closesocket">>])

RECURSIVE SumLen(_, _)
SumLen(f, D) ==
    IF D = {} THEN 0
    ELSE LET e == CHOOSE x \in D : TRUE IN Len(f[e]) + SumLen(f, D \ {e})

\* history: the bytes all writes so far reported sent
TotalSent == SumLen(sent, Ends)

\* UnixStream::try_clone
TryClone(h) ==
    /\ handles[h].kind = "stream"
    /\ FreeHandles # {}
    /\ LET r == UnixStream_try_clone(socks, handles[h].sock)
           c == SetMin(FreeHandles)
       IN  /\ socks' = IF r.ok THEN r.socks ELSE socks
           /\ handles' = IF r.ok
                         THEN [handles EXCEPT ![c] = [handles[h] EXCEPT
                                                        !.sock = r.sock, !.via = "clone"]]
                         ELSE handles
           /\ ret' = [op |-> "try_clone", h |-> h, arg |-> IF r.ok THEN <<c>> ELSE <<>>,
                      res |-> IF r.ok THEN [ok |-> TRUE] ELSE r, calls |-> <<"duplicate">>]
    /\ UNCHANGED <<wsa, fs, nconn, sent, got, inflight, incoming, codecVars>>

\* UnixListener::try_clone, while no accept waits on the listener
ListenerTryClone(h) ==
    /\ handles[h].kind = "listener"
    /\ inflight = 0
    /\ FreeHandles # {}
    /\ LET r == UnixListener_try_clone(socks, handles[h].sock)
           c == SetMin(FreeHandles)
       IN  /\ socks' = IF r.ok THEN r.socks ELSE socks
           /\ handles' = IF r.ok
                         THEN [handles EXCEPT ![c] = [handles[h] EXCEPT
                                                        !.sock = r.sock, !.via = "clone"]]
                         ELSE handles
           /\ ret' = [op |-> "try_clone", h |-> h, arg |-> IF r.ok THEN <<c>> ELSE <<>>,
                      res |-> IF r.ok THEN [ok |-> TRUE] ELSE r, calls |-> <<"duplicate">>]
    /\ UNCHANGED <<wsa, fs, nconn, sent, got, inflight, incoming, codecVars>>

\* impl Write for &UnixStream: one write of buf.  The bytes the write reports
\* sent are recorded for the end they go to.  A run writes MaxStream + more
\* bytes at most; a write after a shutdown of the sending direction sends none.
WriteMore(h, buf, more) ==
    /\ handles[h].kind = "stream"
    /\ LET s == handles[h].sock
           to == <<socks[s].conn, OtherSide(socks[s].side)>>
       IN  /\ socks[s].shut_wr \/ TotalSent + Len(buf) <= MaxStream + more
           /\ \E snd \in NativeSendOutcomes(socks, s, buf, UnixStream_write_len(buf)) :
                 LET r == UnixStream_write(buf, snd)
                 IN  /\ socks' = IF snd.ok THEN snd.socks ELSE socks
                     /\ sent' = IF r.ok
                                THEN [sent EXCEPT ![to] = @ \o SubSeq(buf, 1, r.n)]
                                ELSE sent
                     /\ ret' = [op |-> "write", h |-> h, arg |-> buf, res |-> r,
                                calls |-> <<"send">>]
    /\ UNCHANGED <<wsa, fs, handles, nconn, got, inflight, incoming, codecVars>>

Write(h, buf) == WriteMore(h, buf, 0)

\* UnixStream::shutdown
Shutdown(h, how) ==
    /\ handles[h].kind = "stream"
    /\ LET s == handles[h].sock
           r == UnixStream_shutdown(socks, s, how)
       IN  /\ socks' = IF r.ok THEN r.socks ELSE socks
           /\ ret' = [op |-> "shutdown", h |-> h, arg |-> <<how>>,
                      res |-> IF r.ok THEN [ok |-> TRUE] ELSE r,
                      calls |-> <<"shutdown">>]
    /\ UNCHANGED <<wsa, fs, handles, nconn, sent, got, inflight, incoming, codecVars>>

\* impl Read for &UnixStream: one read into a buffer of n bytes
Read(h, n) ==
    /\ handles[h].kind = "stream"
    /\ LET s == handles[h].sock
       IN  \E rd \in Socket_read_outcomes(socks, s, n) :
              LET rr == UnixStream_read(socks, rd)
                  r == rr.res
              IN  /\ socks' = rr.socks
                  /\ got' = IF r.ok
                            THEN [got EXCEPT ![EndOf(socks, s)] = @ \o
                                    [i \in 1..Len(r.data) |->
                                       [by |-> handles[h].via, b |-> r.data[i]]]]
                            ELSE got
                  /\ ret' = [op |-> "read", h |-> h, arg |-> <<n>>, res |-> r,
                             calls |-> <<"recv">>]
    /\ UNCHANGED <<wsa, fs, handles, nconn, sent, inflight, incoming, codecVars>>

\* UnixStream::set_read_timeout
SetReadTimeout(h, timeout) ==
    /\ handles[h].kind = "stream"
    /\ LET s == handles[h].sock
           r == UnixStream_set_read_timeout(socks, s, timeout)
       IN  /\ socks' = IF r.ok THEN [r.socks EXCEPT ![s].set_rd = timeout] ELSE socks
           /\ ret' = [op |-> "set_read_timeout", h |-> h, arg |-> timeout,
                      res |-> IF r.ok THEN [ok |-> TRUE] ELSE r,
                      calls |-> <<"setsockopt">>]
    /\ UNCHANGED <<wsa, fs, handles, nconn, sent, got, inflight, incoming, codecVars>>

\* UnixStream::set_write_timeout
SetWriteTimeout(h, timeout) ==
    /\ handles[h].kind = "stream"
    /\ LET s == handles[h].sock
           r == UnixStream_set_write_timeout(socks, s, timeout)
       IN  /\ socks' = IF r.ok THEN [r.socks EXCEPT ![s].set_wr = timeout] ELSE socks
           /\ ret' = [op |-> "set_write_timeout", h |-> h, arg |-> timeout,
                      res |-> IF r.ok THEN [ok |-> TRUE] ELSE r,
                      calls |-> <<"setsockopt">>]
    /\ UNCHANGED <<wsa, fs, handles, nconn, sent, got, inflight, incoming, codecVars>>

\* UnixStream::read_timeout
ReadTimeout(h) ==
    /\ handles[h].kind = "stream"
    /\ ret' = [op |-> "read_timeout", h |-> h, arg |-> <<>>,
               res |-> UnixStream_read_timeout(socks, handles[h].sock),
               calls |-> <<"getsockopt">>]
    /\ UNCHANGED <<wsa, fs, socks, handles, nconn, sent, got, inflight, incoming, codecVars>>

\* UnixStream::write_timeout
WriteTimeout(h) ==
    /\ handles[h].kind = "stream"
    /\ ret' = [op |-> "write_timeout", h |-> h, arg |-> <<>>,
               res |-> UnixStream_write_timeout(socks, handles[h].sock),
               calls |-> <<"getsockopt">>]
    /\ UNCHANGED <<wsa, fs, socks, handles, nconn, sent, got, inflight, incoming, codecVars>>

\* bind, connect, accept and the iterator over incoming connections
Next ==
    \/ \E p \in NetPaths : Bind(p)
    \/ \E p \in NetPaths : Connect(p)
    \/ \E l \in HandleIds : Accept(l)
    \/ \E l \in HandleIds : IncomingNext(l)
    \/ \E h \in HandleIds, b \in BOOLEAN : SetNonblocking(h, b)
    \/ \E h \in HandleIds : Drop(h)

Spec == Init /\ [][Next]_vars

\* bind, connect, accept and the addresses of the endpoints
NextAddr ==
    \/ \E p \in NetPaths : Bind(p)
    \/ \E p \in NetPaths : Connect(p)
    \/ \E l \in HandleIds : Accept(l)
    \/ \E h \in HandleIds : LocalAddr(h)
    \/ \E h \in HandleIds : PeerAddr(h)
    \/ \E h \in HandleIds : Drop(h)

SpecAddr == Init /\ [][NextAddr]_vars

\* one listener, its connections, their clones and the bytes they carry
NextIO ==
    \/ \E p \in IoPaths : Bind(p)
    \/ \E p \in IoPaths : Connect(p)
    \/ \E l \in HandleIds : Accept(l)
    \/ \E h \in HandleIds : TryClone(h)
    \/ \E h \in HandleIds, buf \in Bufs : Write(h, buf)
    \/ \E h \in HandleIds, n \in 1..MaxStream : Read(h, n)

SpecIO == Init /\ [][NextIO]_vars

\* one listener, its connections and their timeouts
NextTimeout ==
    \/ \E p \in IoPaths : Bind(p)
    \/ \E p \in IoPaths : Connect(p)
    \/ \E l \in HandleIds : Accept(l)
    \/ \E h \in HandleIds, t \in Timeouts : SetReadTimeout(h, t)
    \/ \E h \in HandleIds, t \in Timeouts : SetWriteTimeout(h, t)
    \/ \E h \in HandleIds : ReadTimeout(h)
    \/ \E h \in HandleIds : WriteTimeout(h)

SpecTimeout == Init /\ [][NextTimeout]_vars

\* bind, connect and accept with paths at the edges of what the codec takes
NextEdge ==
    \/ \E p \in EdgePaths : Bind(p)
    \/ \E p \in EdgePaths : Connect(p)
    \/ \E l \in HandleIds : Accept(l)
    \/ \E h \in HandleIds : Drop(h)

SpecEdge == Init /\ [][NextEdge]_vars

\* a listener in either mode, its clients, and an accept call that waits
NextAccept ==
    \/ \E p \in IoPaths : Bind(p)
    \/ \E p \in IoPaths : Connect(p)
    \/ \E h \in HandleIds, b \in BOOLEAN : SetNonblocking(h, b)
    \/ \E l \in HandleIds : AcceptCall(l)
    \/ AcceptReturn
    \/ \E h \in HandleIds : Drop(h)

\* the native accept returns once it can: a waiting caller is woken when a
\* connection is pending, and is not kept waiting in non-blocking mode
SpecAccept == Init /\ [][NextAccept]_vars /\ WF_vars(AcceptReturn)

\* one connection, its read timeouts and the bytes it carries
NextTimedRead ==
    \/ \E p \in IoPaths : Bind(p)
    \/ \E p \in IoPaths : Connect(p)
    \/ \E l \in HandleIds : Accept(l)
    \/ \E h \in HandleIds, t \in Timeouts : SetReadTimeout(h, t)
    \/ \E h \in HandleIds, buf \in Bufs : Write(h, buf)
    \/ \E h \in HandleIds, n \in 1..MaxStream : Read(h, n)

SpecTimedRead == Init /\ [][NextTimedRead]_vars

\* a listener in either mode, its clients and the steps of one iterator
NextIncoming ==
    \/ \E p \in IoPaths : Bind(p)
    \/ \E p \in IoPaths : Connect(p)
    \/ \E h \in HandleIds, b \in BOOLEAN : SetNonblocking(h, b)
    \/ \E l \in HandleIds : Incoming(l)
    \/ IterNext
    \/ \E h \in HandleIds : Drop(h)

SpecIncoming == Init /\ [][NextIncoming]_vars

\* streams and listeners with their clones: timeouts and the blocking mode set
\* and read through any of the handles
NextShared ==
    \/ \E p \in IoPaths : Bind(p)
    \/ \E p \in IoPaths : Connect(p)
    \/ \E l \in HandleIds : Accept(l)
    \/ \E h \in HandleIds : TryClone(h)
    \/ \E h \in HandleIds : ListenerTryClone(h)
    \/ \E h \in HandleIds, t \in Timeouts : SetReadTimeout(h, t)
    \/ \E h \in HandleIds, t \in Timeouts : SetWriteTimeout(h, t)
    \/ \E h \in HandleIds : ReadTimeout(h)
    \/ \E h \in HandleIds : WriteTimeout(h)
    \/ \E h \in HandleIds, b \in BOOLEAN : SetNonblocking(h, b)

SpecShared == Init /\ [][NextShared]_vars

\* paths given to bind: empty, two names, one with a zero byte
BindPaths == NetPaths \cup {<<0, 97>>}

\* bind with every answer of the platform, and listeners dropped
NextBind ==
    \/ \E p \in BindPaths : BindAny(p)
    \/ \E p \in BindPaths : Connect(p)
    \/ \E h \in HandleIds : Drop(h)

SpecBind == Init /\ [][NextBind]_vars

\* one listener and its first connection: the two ends and their clones are
\* dropped in any order while single bytes are written and read
NextClose ==
    \/ \E p \in IoPaths : Bind(p)
    \/ \E p \in IoPaths : nconn = 0 /\ Connect(p)
    \/ \E l \in HandleIds : Accept(l)
    \/ \E h \in HandleIds : TryClone(h)
    \/ \E h \in StreamHandles : Drop(h)
    \/ \E h \in HandleIds : Write(h, <<104>>)
    \/ \E h \in HandleIds : Read(h, 1)

SpecClose == Init /\ [][NextClose]_vars

\* one connection whose connecting end is cloned; handles are dropped in any
\* order while single bytes are written and read
NextDrain ==
    \/ \E p \in IoPaths : Bind(p)
    \/ \E p \in IoPaths : nconn = 0 /\ Connect(p)
    \/ \E l \in HandleIds : Accept(l)
    \/ \E h \in HandleIds : handles[h].via = "connect" /\ TryClone(h)
    \/ \E h \in StreamHandles : Drop(h)
    \/ \E h \in HandleIds : Write(h, <<104>>)
    \/ \E h \in HandleIds : Read(h, 1)

\* every thread that reads in a loop is scheduled again and again
SpecDrain == Init /\ [][NextDrain]_vars /\ \A h \in HandleIds : WF_vars(Read(h, 1))

(***************************************************************************)
(* Claims about the address codec, checked under SpecCodec                 *)
(***************************************************************************)
\* what a caller sees of a round trip: the address decoded from the encoding
\* of path is a pathname address holding path, in either build
RoundTrips ==
    /\ dec.ok
    /\ \A oc \in BOOLEAN :
          /\ as_pathname(dec.sa, oc) = Some(path)
          /\ ~is_unnamed(dec.sa, oc)

\* C1 as stated: every path that sockaddr_un accepts decodes (from_parts, then
\* as_pathname) to Some(path) and is not unnamed.  The empty path is accepted
\* and decodes to the unnamed address.
C1_RoundTripEveryAcceptedPath == pc = "decoded" => RoundTrips

\* C1 amended: every NON-EMPTY path that sockaddr_un accepts decodes to an
\* address whose as_pathname() is Some(path) and whose is_unnamed() is false.
C1_RoundTripNonEmptyPath == (pc = "decoded" /\ path # <<>>) => RoundTrips

\* the longest accepted path (107 bytes) has been encoded and decoded
C1_Witness ==
    /\ pc = "decoded"
    /\ Len(path) = SUN_PATH_LEN - 1
    /\ dec.ok

\* C2: a path of 108 bytes or more makes sockaddr_un fail with InvalidInput,
\* and the failure carries no encoded buffer and no length.
C2_LongPathInvalidInput ==
    (pc # "idle" /\ Len(path) >= SUN_PATH_LEN) =>
        /\ ~enc.ok
        /\ enc.kind = "InvalidInput"
        /\ DOMAIN enc = {"ok", "kind", "msg"}

\* a well-formed path of exactly 108 bytes has been refused
C2_Witness ==
    /\ pc = "encoded"
    /\ Len(path) = SUN_PATH_LEN
    /\ IsUtf8(path)
    /\ ~Contains0(path)
    /\ ~enc.ok

\* C3: a path holding a zero byte at any position (first, interior or last)
\* makes sockaddr_un fail with InvalidInput.
C3_ZeroByteInvalidInput ==
    (pc # "idle" /\ Contains0(path)) =>
        /\ ~enc.ok
        /\ enc.kind = "InvalidInput"

\* a short text path whose only zero byte is its last byte has been refused
C3_Witness ==
    /\ pc = "encoded"
    /\ Len(path) \in 2..(SUN_PATH_LEN - 1)
    /\ path[Len(path)] = 0
    /\ ~Contains0(SubSeq(path, 1, Len(path) - 1))
    /\ IsUtf8(path)
    /\ ~enc.ok
    /\ enc.msg = "paths may not contain interior null bytes"

(***************************************************************************)
(* Claims about bind, connect, accept and Incoming, checked under Spec     *)
(***************************************************************************)
\* the listeners alive that were bound to path p
ListenersBoundTo(p) ==
    {l \in HandleIds : handles[l].kind = "listener" /\ handles[l].path = p}

C10_IncomingYieldsEachClientOnce ==
    /\ ret.op = "next" =>
          /\ ret.res.some
          /\ ~socks[handles[ret.h].sock].nonblocking => ret.res.val.ok
          /\ ret.res.val.ok =>
                /\ handles[ret.arg[1]].sock = ret.res.val.sock
                /\ socks[ret.res.val.sock].conn =
                      socks[handles[ret.h].sock].taken[
                          Len(socks[handles[ret.h].sock].taken)]
          /\ ~ret.res.val.ok => socks[handles[ret.h].sock].backlog = <<>>
    /\ \A l \in SockIds :
          socks[l].st = "listening" =>
              /\ Len(socks[l].taken) <= Len(socks[l].queued)
              /\ socks[l].taken = SubSeq(socks[l].queued, 1, Len(socks[l].taken))
              /\ \A i, j \in 1..Len(socks[l].queued) :
                    socks[l].queued[i] = socks[l].queued[j] => i = j
              /\ Len(socks[l].backlog) = Len(socks[l].queued) - Len(socks[l].taken)

\* two clients have connected to one listener and the iterator has yielded
\* the second of them
C10_Witness ==
    /\ ret.op = "next"
    /\ ret.res.some
    /\ ret.res.val.ok
    /\ socks[handles[ret.h].sock].queued = <<1, 2>>
    /\ socks[handles[ret.h].sock].taken = <<1, 2>>
    /\ socks[ret.res.val.sock].conn = 2

(***************************************************************************)
(* Claims about local_addr and peer_addr, checked under SpecAddr           *)
(***************************************************************************)
\* C5: local_addr() of a listener bound to p and peer_addr() of a stream got
\* from connect(p) both succeed with as_pathname() = Some(p), and neither
\* address is unnamed.
C5_AddressesNameThePath ==
    /\ (ret.op = "local_addr" /\ handles[ret.h].kind = "listener") =>
          /\ ret.res.ok
          /\ \A oc \in BOOLEAN :
                /\ as_pathname(ret.res.sa, oc) = Some(handles[ret.h].path)
                /\ ~is_unnamed(ret.res.sa, oc)
    /\ (ret.op = "peer_addr" /\ handles[ret.h].via = "connect") =>
          /\ ret.res.ok
          /\ \A oc \in BOOLEAN :
                /\ as_pathname(ret.res.sa, oc) = Some(handles[ret.h].path)
                /\ ~is_unnamed(ret.res.sa, oc)

\* peer_addr() has been called on a stream connected to "c" while another
\* listener, bound to "a", is open
C5_Witness ==
    /\ ret.op = "peer_addr"
    /\ handles[ret.h].via = "connect"
    /\ handles[ret.h].path = <<99>>
    /\ ret.res.ok
    /\ ListenersBoundTo(<<97>>) # {}

(***************************************************************************)
(* Byte streams                                                            *)
(***************************************************************************)
IsPrefix(a, b) == Len(a) <= Len(b) /\ SubSeq(b, 1, Len(a)) = a

\* the bytes of a read history
BytesOf(log) == [i \in 1..Len(log) |-> log[i].b]


\* C6: on every connected socket, the bytes its reads have returned so far,
\* followed by the bytes waiting to be read, are exactly the bytes the writes
\* on the other end reported sent, in order: what is read is a prefix of what
\* was written, with nothing lost, repeated or out of order.
C6_ReadsArePrefixOfWrites ==
    \A s \in SockIds :
        socks[s].st = "connected" =>
            /\ IsPrefix(BytesOf(got[EndOf(socks, s)]), sent[EndOf(socks, s)])
            /\ BytesOf(got[EndOf(socks, s)]) \o socks[s].rx = sent[EndOf(socks, s)]

\* the other end wrote "hw" and one read has just returned both bytes
C6_Witness ==
    /\ ret.op = "read" /\ ret.res.ok /\ ret.res.n = 2
    /\ ret.res.data = <<104, 119>>
    /\ LET e == EndOf(socks, handles[ret.h].sock)
       IN  BytesOf(got[e]) = <<104, 119>> /\ sent[e] = <<104, 119>>

\* C7: two handles of one end, a stream and its clone, read one stream: what
\* either would read next is the same unread bytes, so a byte one of them has
\* read is not there for the other, and the bytes read through both, in the
\* order the reads completed, followed by the unread bytes are the bytes the
\* peer wrote, in order.
C7_CloneSharesByteStream ==
    \A h1, h2 \in StreamHandles :
        LET s1 == handles[h1].sock
            s2 == handles[h2].sock
        IN  (h1 # h2 /\ EndOf(socks, s1) = EndOf(socks, s2)) =>
                /\ socks[s1].rx = socks[s2].rx
                /\ BytesOf(got[EndOf(socks, s1)]) \o socks[s2].rx
                       = sent[EndOf(socks, s1)]

\* the peer wrote "hw"; the stream read "h" and then its clone read "w"
C7_Witness ==
    /\ ret.op = "read" /\ ret.res.ok /\ ret.res.data = <<119>>
    /\ ret.h \in StreamHandles /\ handles[ret.h].via = "clone"
    /\ LET e == EndOf(socks, handles[ret.h].sock)
       IN  /\ sent[e] = <<104, 119>>
           /\ Len(got[e]) = 2
           /\ got[e][1].b = 104 /\ got[e][1].by # "clone"
           /\ got[e][2].b = 119 /\ got[e][2].by = "clone"

(***************************************************************************)
(* Timeouts                                                                *)
(***************************************************************************)
\* C8: set_read_timeout and set_write_timeout given Some(zero duration)
\* return an error of kind InvalidInput, whatever is configured.
C8_ZeroTimeoutInvalidInput ==
    (ret.op \in {"set_read_timeout", "set_write_timeout"} /\ ret.arg = Some(0)) =>
        (~ret.res.ok /\ ret.res.kind = "InvalidInput")

\* a zero read timeout has just been refused on a stream that has a read
\* timeout configured
C8_Witness ==
    /\ ret.op = "set_read_timeout" /\ ret.arg = Some(0)
    /\ ~ret.res.ok
    /\ socks[handles[ret.h].sock].rcvtimeo = Some(2)

\* C9: read_timeout returns the value last set with success by
\* set_read_timeout on the stream, write_timeout the value last set with
\* success by set_write_timeout, and None if none was; neither changes with
\* the other direction.
C9_GettersReturnLastSet ==
    /\ ret.op = "read_timeout" =>
          (ret.res.ok /\ ret.res.val = socks[handles[ret.h].sock].set_rd)
    /\ ret.op = "write_timeout" =>
          (ret.res.ok /\ ret.res.val = socks[handles[ret.h].sock].set_wr)

\* the write timeout was set and the read timeout never: read_timeout has
\* just returned None
C9_Witness ==
    /\ ret.op = "read_timeout" /\ ret.res.ok /\ ret.res.val = None
    /\ socks[handles[ret.h].sock].set_wr = Some(1)
    /\ socks[handles[ret.h].sock].sndtimeo = Some(1)
C12_AbstractNameNeverConnects ==
    (ret.op = "connect" /\ Len(ret.arg) > 0 /\ ret.arg[1] = 0) =>
        /\ ~ret.res.ok
        /\ ret.h = 0
        /\ \A h \in HandleIds : handles[h].kind = "stream" => handles[h].path # ret.arg

\* connect("\0a") has been refused while a listener bound to "a" is open
C12_Witness ==
    /\ ret.op = "connect"
    /\ ret.arg = <<0, 97>>
    /\ ~ret.res.ok
    /\ ListenersBoundTo(<<97>>) # {}
(***************************************************************************)
(* Claims about a waiting accept, checked under SpecAccept                 *)
(***************************************************************************)
\* the step in which an accept call returns: in blocking mode a connection
\* was pending and it is the one returned; in non-blocking mode with nothing
\* pending the result is WouldBlock and no stream is made
AcceptReturnStep ==
    (inflight # 0 /\ inflight' = 0) =>
        LET L == socks[handles[inflight].sock]
        IN  /\ ~L.set_nb =>
                  /\ L.backlog # <<>>
                  /\ ret'.op = "accept" /\ ret'.h = inflight
                  /\ ret'.res.ok
                  /\ ret'.res.sock = Head(L.backlog)
            /\ (L.set_nb /\ L.backlog = <<>>) =>
                  /\ ~ret'.res.ok
                  /\ ret'.res.kind = "WouldBlock"
                  /\ handles' = handles
                  /\ socks' = socks

\* C13: accept on a blocking listener returns only when a connection is
\* pending, and once one is pending it returns it; accept on a non-blocking
\* listener with nothing pending returns WouldBlock and no stream, and does
\* not wait.
C13_AcceptWaitsUnlessNonblocking ==
    /\ [][AcceptReturnStep]_vars
    /\ \A l \in HandleIds :
          (inflight = l /\ socks[handles[l].sock].backlog # <<>>)
              ~> (inflight = 0 /\ ret.op = "accept" /\ ret.h = l /\ ret.res.ok)
    /\ \A l \in HandleIds :
          (inflight = l /\ socks[handles[l].sock].set_nb) ~> (inflight = 0)

\* an accept call waits on a blocking listener that has nothing pending,
\* after an earlier accept on it returned a connection
C13_Witness ==
    /\ inflight # 0
    /\ ~socks[handles[inflight].sock].set_nb
    /\ socks[handles[inflight].sock].backlog = <<>>
    /\ Len(socks[handles[inflight].sock].taken) = 1
(***************************************************************************)
(* Claims about reads under a timeout, checked under SpecTimedRead         *)
(***************************************************************************)
\* the step of a read: with a read timeout configured, nothing unread and the
\* peer open it fails with WouldBlock or TimedOut and consumes nothing; with
\* bytes unread it returns the first of them
TimedReadStep ==
    ret'.op = "read" =>
        LET X == socks[handles[ret'.h].sock]
        IN  /\ (X.set_rd.some /\ X.rx = <<>> /\ ~X.eof) =>
                  /\ ~ret'.res.ok
                  /\ ret'.res.kind \in {"WouldBlock", "TimedOut"}
                  /\ socks' = socks
                  /\ got' = got
            /\ X.rx # <<>> =>
                  /\ ret'.res.ok
                  /\ ret'.res.n >= 1
                  /\ IsPrefix(ret'.res.data, X.rx)

\* C14: on a stream with a non-zero read timeout configured, a read issued
\* while nothing is unread and the peer is open does not wait for ever: it
\* fails with WouldBlock or TimedOut, never with data or Ok(0), whether the
\* peer never wrote or all it wrote has been read; a read issued while bytes
\* are unread returns those bytes.
C14_TimedReadFailsWhenNothingUnread ==
    /\ [][TimedReadStep]_vars
    /\ [](\A h \in StreamHandles :
             socks[handles[h].sock].set_rd.some =>
                 Socket_read_outcomes(socks, handles[h].sock, 1) # {})

\* the peer wrote "hw", the stream has read both bytes under a read timeout,
\* and its next read has just timed out
C14_Witness ==
    /\ ret.op = "read" /\ ~ret.res.ok /\ ret.res.kind = "TimedOut"
    /\ LET s == handles[ret.h].sock
       IN  /\ socks[s].set_rd = Some(1)
           /\ socks[s].rx = <<>>
           /\ socks[s].peer # 0
           /\ sent[EndOf(socks, s)] = <<104, 119>>
           /\ BytesOf(got[EndOf(socks, s)]) = <<104, 119>>
(***************************************************************************)
(* Claims about the steps of one iterator, checked under SpecIncoming      *)
(***************************************************************************)
\* a step of the iterator: it yields Some; a failed step leaves every socket
\* and every stream and listener as they were; a step taken after a failed
\* one, with a connection pending, yields Ok with the oldest pending
\* connection
IterStep ==
    (ret'.op = "next" /\ incoming' # incoming) =>
        LET L == socks[handles[incoming.listener].sock]
        IN  /\ ret'.res.some
            /\ ret'.h = incoming.listener
            /\ ~ret'.res.val.ok =>
                  (socks' = socks /\ handles' = handles /\ fs' = fs)
            /\ ( /\ incoming.yields # <<>>
                 /\ incoming.yields[Len(incoming.yields)] = "err"
                 /\ L.backlog # <<>> ) =>
                  /\ ret'.res.val.ok
                  /\ ret'.res.val.sock = Head(L.backlog)
                  /\ handles'[ret'.arg[1]].kind = "stream"
                  /\ handles'[ret'.arg[1]].sock = Head(L.backlog)

\* C15: a failed accept neither ends the iteration nor changes the listener:
\* the step that yields Some(Err) leaves the state as it was, and the step
\* after it is a fresh accept on the same listener that yields Some(Ok) when
\* a connection is then pending.
C15_FailedAcceptLeavesListenerUsable == [][IterStep]_vars

\* the iterator yielded an error, a client then connected, and the next step
\* has just yielded its connection
C15_Witness ==
    /\ ret.op = "next" /\ ret.res.some /\ ret.res.val.ok
    /\ incoming.yields = <<"err", "ok">>
    /\ socks[ret.res.val.sock].st = "connected"
    /\ socks[ret.res.val.sock].peer # 0
\* C16: is_unnamed(), as_pathname() and Debug formatting return without
\* panicking on every address that from_parts accepted from a buffer and a
\* length a native call can report, a path of invalid text included
C16_DecodeNeverPanics ==
    (pc = "parsed" /\ dec.ok /\ NativeCanReturn(enc.addr, enc.len)
        /\ ret.op \in {"is_unnamed", "as_pathname", "fmt"}) => ~ret.res.panic

\* as_pathname() panicked on an AF_UNIX address whose path is the byte 0xED
C16_Panics ==
    /\ pc = "parsed" /\ dec.ok
    /\ enc.addr = FilledAddr(AF_UNIX, <<237>>) /\ enc.len = sun_path_offset + 2
    /\ ret.op = "as_pathname" /\ ret.res.panic
\* C19: from_parts with a length of zero succeeds whatever the buffer holds,
\* a foreign family included, and the address is unnamed; with another length
\* it fails, with InvalidInput, exactly when the family is not AF_UNIX, and
\* otherwise succeeds with the buffer and the length as they were given
C19_FromPartsAcceptance ==
    pc = "parsed" =>
        /\ enc.len = 0 =>
              /\ dec.ok
              /\ dec.sa.addr = enc.addr
              /\ \A oc \in BOOLEAN : is_unnamed(dec.sa, oc)
              /\ ret.op = "is_unnamed" => (~ret.res.panic /\ ret.res.val)
        /\ enc.len # 0 =>
              /\ ~dec.ok <=> enc.addr.sun_family # AF_UNIX
              /\ ~dec.ok => dec.kind = "InvalidInput"
              /\ dec.ok => dec.sa = [addr |-> enc.addr, len |-> enc.len]

\* a zero length with the family of another protocol was accepted and the
\* address answered is_unnamed() with true
C19_Witness ==
    /\ pc = "parsed" /\ enc.len = 0 /\ enc.addr = FilledAddr(2, <<97>>)
    /\ dec.ok /\ ret.op = "is_unnamed" /\ ~ret.res.panic /\ ret.res.val
\* C20: every accepted address has exactly one class: Unnamed when its length
\* less the path offset is zero or its first path byte is zero, otherwise
\* Pathname (Abstract cannot arise on this platform); is_unnamed() is true
\* exactly for Unnamed and as_pathname() is Some exactly for Pathname
C20_ClassificationTotal ==
    (pc = "parsed" /\ dec.ok /\ NativeCanReturn(enc.addr, enc.len)) =>
        LET n == dec.sa.len - sun_path_offset
            first == dec.sa.addr.sun_path[1]
            class == IF n = 0 \/ first = 0 THEN "Unnamed"
                     ELSE IF first = 0 THEN "Abstract"
                     ELSE "Pathname"
        IN  /\ \A oc \in BOOLEAN : address(dec.sa, oc).kind = class
            /\ ret.op = "is_unnamed" =>
                   (~ret.res.panic /\ ret.res.val = (class = "Unnamed"))
            /\ ret.op = "as_pathname" =>
                   (~ret.res.panic /\ ret.res.val.some = (class = "Pathname"))

\* is_unnamed() gave no answer for an AF_UNIX address whose first path byte is
\* not zero and whose path is not UTF-8
C20_NoClass ==
    /\ pc = "parsed" /\ dec.ok
    /\ enc.addr = FilledAddr(AF_UNIX, <<97, 237>>) /\ enc.len = sun_path_offset + 3
    /\ ret.op = "is_unnamed" /\ ret.res.panic
(***************************************************************************)
(* Claims about clones, checked under SpecShared                           *)
(***************************************************************************)
\* handles of the same end of a connection, or of the same listener
SameEndpoint(g, h) ==
    /\ g \in HandleIds /\ h \in HandleIds
    /\ handles[g].kind # "none"
    /\ handles[g].kind = handles[h].kind
    /\ IF handles[g].kind = "stream"
       THEN EndOf(socks, handles[g].sock) = EndOf(socks, handles[h].sock)
       ELSE socks[handles[g].sock].name = socks[handles[h].sock].name

\* an accept through listener handle h with nothing pending returns at once
AcceptsWithoutWaiting(h) ==
    LET s == handles[h].sock
    IN  NativeAcceptOutcomes([socks EXCEPT ![s].backlog = <<>>], s) # {}

\* C17: a timeout or a blocking mode set through one handle is what every
\* handle of the same connection end or listener observes, original and
\* clones alike: read_timeout() and write_timeout() through any of them return
\* the value last set through any of them, and accept through any of them
\* blocks or not as last asked through any of them
C17_ClonesShareConfiguration ==
    /\ \A g, h \in HandleIds : SameEndpoint(g, h) =>
          IF handles[g].kind = "stream"
          THEN /\ UnixStream_read_timeout(socks, handles[h].sock)
                     = [ok |-> TRUE, val |-> socks[handles[g].sock].set_rd]
               /\ UnixStream_write_timeout(socks, handles[h].sock)
                     = [ok |-> TRUE, val |-> socks[handles[g].sock].set_wr]
          ELSE AcceptsWithoutWaiting(h) = socks[handles[g].sock].set_nb
    /\ \A g \in HandleIds : SameEndpoint(ret.h, g) =>
          /\ (ret.op = "set_read_timeout" /\ ret.res.ok) =>
                UnixStream_read_timeout(socks, handles[g].sock).val = ret.arg
          /\ (ret.op = "set_write_timeout" /\ ret.res.ok) =>
                UnixStream_write_timeout(socks, handles[g].sock).val = ret.arg
          /\ ret.op = "read_timeout" =>
                ret.res = [ok |-> TRUE, val |-> socks[handles[g].sock].set_rd]
          /\ ret.op = "write_timeout" =>
                ret.res = [ok |-> TRUE, val |-> socks[handles[g].sock].set_wr]
          /\ (ret.op = "accept" /\ ~ret.res.ok /\ ret.res.kind = "WouldBlock") =>
                socks[handles[g].sock].set_nb

\* the listener was made non-blocking through one handle, and accept through
\* another handle of it, a clone or the original, has returned WouldBlock
C17_Witness ==
    /\ ret.op = "accept" /\ ~ret.res.ok /\ ret.res.kind = "WouldBlock"
    /\ \E g \in HandleIds :
          /\ g # ret.h /\ SameEndpoint(ret.h, g)
          /\ handles[g].via # handles[ret.h].via
(***************************************************************************)
(* Claims about start-up, checked under SpecEdge                           *)
(***************************************************************************)
\* C18: connect and bind call init() before they make their raw socket, so
\* no socket exists while the subsystem is not started; and however many
\* connect and bind calls there were, failed ones included, the subsystem
\* has been started once only
C18_InitBeforeSocketAndOnce ==
    /\ wsa \in {0, 1}
    /\ (\E s \in SockIds : socks[s].st # "free") => wsa = 1
    /\ ret.op \in {"bind", "connect"} =>
          /\ wsa = 1
          /\ ret.calls[1] = "init"
          /\ \A i \in 1..Len(ret.calls) :
                /\ ret.calls[i] = "socket" => i > 1
                /\ ret.calls[i] = "init" => i = 1

\* a connect reached a listener: bind and connect have both called init()
C18_Witness ==
    /\ ret.op = "connect" /\ ret.res.ok /\ ret.calls = <<"init", "socket", "connect">>
    /\ ListenersBoundTo(<<97>>) # {}
    /\ wsa = 1
(***************************************************************************)
(* Claims about decoded pathnames, checked under SpecDecode                *)
(***************************************************************************)
\* C21: the path of a Pathname address is the bytes of the path field before
\* its first zero byte, whatever length at or past the offset the native call
\* reported, a length past the terminator and a length covering a field
\* without a zero byte included
C21_PathnameEndsAtFirstNul ==
    (pc = "parsed" /\ dec.ok /\ NativeCanReturn(enc.addr, enc.len)
        /\ ret.op = "as_pathname" /\ ~ret.res.panic /\ ret.res.val.some) =>
            ret.res.val.val = CStr(dec.sa.addr.sun_path)

\* as_pathname() kept a zero byte: the field holds "a" and zeroes, the length
\* reported covers three path bytes, and the path returned is "a\0"
C21_KeepsNul ==
    /\ pc = "parsed" /\ dec.ok
    /\ enc.addr = FilledAddr(AF_UNIX, <<97>>) /\ enc.len = sun_path_offset + 3
    /\ ret.op = "as_pathname" /\ ~ret.res.panic
    /\ ret.res.val = Some(<<97, 0>>)
(***************************************************************************)
(* Claims about the encoded buffer, checked under SpecCodec                *)
(***************************************************************************)
\* C22: for an accepted path of n bytes the advertised length is the path
\* offset plus n when the path is empty or starts with a zero byte, and one
\* more otherwise; it lies between the offset and the size of the structure,
\* and is the size of the structure exactly for n = 107, which is accepted
C22_AdvertisedLength ==
    pc # "idle" =>
        LET n == Len(path)
        IN  /\ enc.ok =>
                 /\ enc.len = IF n = 0 \/ path[1] = 0
                              THEN sun_path_offset + n
                              ELSE sun_path_offset + n + 1
                 /\ sun_path_offset <= enc.len
                 /\ enc.len <= SIZEOF_SOCKADDR_UN
                 /\ enc.len = SIZEOF_SOCKADDR_UN <=> n = SUN_PATH_LEN - 1
            /\ (n = SUN_PATH_LEN - 1 /\ IsUtf8(path) /\ ~Contains0(path)) => enc.ok

\* a path of 107 bytes was accepted with the size of the structure as length
C22_Witness ==
    /\ pc = "encoded" /\ Len(path) = SUN_PATH_LEN - 1
    /\ enc.ok /\ enc.len = SIZEOF_SOCKADDR_UN
\* C23: after sockaddr_un accepted a path of n bytes, the family of the
\* buffer is AF_UNIX, its first n path bytes are the path in order, and every
\* path byte after them is zero, the terminator at index n included
C23_BufferHoldsPathThenZeroes ==
    (pc # "idle" /\ enc.ok) =>
        LET n == Len(path)
        IN  /\ DOMAIN enc.addr = {"sun_family", "sun_path"}
            /\ enc.addr.sun_family = AF_UNIX
            /\ DOMAIN enc.addr.sun_path = 1..SUN_PATH_LEN
            /\ \A i \in 1..n : enc.addr.sun_path[i] = path[i]
            /\ \A i \in (n + 1)..SUN_PATH_LEN : enc.addr.sun_path[i] = 0
            /\ n < SUN_PATH_LEN /\ enc.addr.sun_path[n + 1] = 0

\* the longest path was encoded: only the last byte of the field is the
\* terminator
C23_Witness ==
    /\ pc = "encoded" /\ enc.ok /\ Len(path) = SUN_PATH_LEN - 1
    /\ enc.addr.sun_path[SUN_PATH_LEN - 1] # 0
    /\ enc.addr.sun_path[SUN_PATH_LEN] = 0
(***************************************************************************)
(* Claims about the steps of bind and connect, checked under SpecBind      *)
(***************************************************************************)
\* C24: bind makes its socket, encodes the path, calls the native bind and
\* then listen with a backlog of 128, in this order; a step is taken only
\* when every step before it succeeded, so listen follows a successful
\* native bind only; a listener is returned exactly when all four succeeded,
\* and otherwise the error of the step that failed is returned
C24_BindStepsInOrder ==
    (ret.op = "bind") =>
        LET order == <<"socket", "encode", "bind", "listen">>
            n == Len(ret.steps)
        IN  /\ n \in 1..4
            /\ \A i \in 1..n : ret.steps[i].step = order[i]
            /\ \A i \in 1..(n - 1) : ret.steps[i].res.ok
            /\ SelectSeq(ret.calls, LAMBDA c : c \in {"socket", "bind", "listen"})
                  = SelectSeq(SubSeq(order, 1, n), LAMBDA c : c # "encode")
            /\ ret.res.ok <=> (n = 4 /\ ret.steps[4].res.ok)
            /\ ret.res.ok =>
                  /\ ret.h \in HandleIds
                  /\ handles[ret.h].kind = "listener"
                  /\ socks[handles[ret.h].sock].st = "listening"
                  /\ socks[handles[ret.h].sock].cap = 128
            /\ ~ret.res.ok =>
                  /\ ret.res = ret.steps[n].res
                  /\ ret.h = 0

\* the native bind refused a name in use: its error came back and listen was
\* not called
C24_Witness ==
    /\ ret.op = "bind" /\ ~ret.res.ok /\ ret.res.kind = "AddrInUse"
    /\ ret.calls = <<"init", "socket", "bind", "closesocket">>
    /\ Len(ret.steps) = 3
\* C25: connect returns a stream only when the native connect succeeded, so
\* every stream that connect returned is connected; when the path is refused
\* by the encoder, or the native connect fails, connect returns that error as
\* it is and no stream
C25_ConnectOkOnlyWhenConnected ==
    /\ \A h \in HandleIds :
          (handles[h].kind = "stream" /\ handles[h].via = "connect") =>
              /\ socks[handles[h].sock].st = "connected"
              /\ socks[handles[h].sock].side = "c"
    /\ ret.op = "connect" =>
          LET e == sockaddr_un(ret.arg)
              called == \E i \in 1..Len(ret.calls) : ret.calls[i] = "connect"
          IN  /\ ret.res.ok =>
                    /\ e.ok /\ called
                    /\ ret.h \in HandleIds
                    /\ handles[ret.h].kind = "stream"
                    /\ socks[handles[ret.h].sock].st = "connected"
                    /\ socks[handles[ret.h].sock].peer # 0
              /\ ~e.ok => (ret.res = e /\ ~called)
              /\ (e.ok /\ ~ret.res.ok) =>
                    (called /\ ret.res = Err("ConnectionRefused", "WSAECONNREFUSED"))
              /\ ~ret.res.ok =>
                    /\ ret.h = 0
                    /\ \A s \in SockIds : socks[s].st # "raw"

\* no listener is bound at the path given, though one is bound at another:
\* connect returned the refusal of the native connect
C25_Witness ==
    /\ ret.op = "connect" /\ ret.arg = <<99>>
    /\ ~ret.res.ok /\ ret.res.kind = "ConnectionRefused"
    /\ ListenersBoundTo(<<97>>) # {}
\* C26: a SocketAddr made by from_parts from a buffer and a length the native
\* call reported has a length from the path offset to the size of the
\* structure, so address() neither underflows in len - offset nor reads past
\* the 108 bytes of the path field
C26_LengthWithinStructure ==
    (pc = "parsed" /\ dec.ok /\ NativeCanReturn(enc.addr, enc.len)) =>
        LET n == dec.sa.len - sun_path_offset
        IN  /\ sun_path_offset <= dec.sa.len
            /\ dec.sa.len <= SIZEOF_SOCKADDR_UN
            /\ n \in 0..SUN_PATH_LEN
            /\ \A oc \in BOOLEAN :
                  address(dec.sa, oc).kind = "Panic" =>
                      ~IsUtf8(SubSeq(dec.sa.addr.sun_path, 1, n - 1))
            /\ address(dec.sa, TRUE) = address(dec.sa, FALSE)

\* the native call reported no bytes: the SocketAddr has the offset as its
\* length and formats as unnamed
C26_Witness ==
    /\ pc = "parsed" /\ dec.ok /\ enc.len = 0 /\ dec.sa.len = sun_path_offset
    /\ ret.op = "fmt" /\ ~ret.res.panic /\ ret.res.val = <<"(unnamed)">>
\* a connect or bind whose path the encoder refuses makes no native connect,
\* bind or listen call, closes the socket it made, and leaves the socket
\* files, the sockets and the handles as they were
EncodeFailureStep ==
    (ret'.op \in {"bind", "connect"} /\ ~sockaddr_un(ret'.arg).ok
        /\ ret'.res = sockaddr_un(ret'.arg)) =>
            /\ ret'.calls = <<"init", "socket", "closesocket">>
            /\ ret'.h = 0
            /\ fs' = fs
            /\ socks' = socks
            /\ handles' = handles

\* C29: when the path encoding fails inside connect or bind, no native
\* connect, bind or listen is called, nothing is bound at any path, the raw
\* socket made just before is released, and the listeners and connections
\* that exist stay as they are
C29_EncodeFailureHasNoEffect == [][EncodeFailureStep]_vars

\* bind has refused a path with a zero byte while a listener exists
C29_Witness ==
    /\ ret.op = "bind" /\ ret.arg = <<0, 97>> /\ ~ret.res.ok
    /\ ret.calls = <<"init", "socket", "closesocket">>
    /\ ListenersBoundTo(<<97>>) # {}
    /\ \A s \in SockIds : socks[s].st # "raw"
(***************************************************************************)
(* Claims about dropped handles, checked under SpecClose                   *)
(***************************************************************************)
\* the stream handles of the socket of h, h left out
OtherHandles(h) ==
    {g \in StreamHandles \ {h} : handles[g].sock = handles[h].sock}

\* a stream handle h goes away: while another handle of its socket remains,
\* the socket and the other end stay as they were, with the bytes waiting and
\* no end-of-stream; with the last handle the socket is released and the
\* other end sees end-of-stream
DropStep ==
    \A h \in StreamHandles : handles'[h].kind = "none" =>
        LET s == handles[h].sock
            p == socks[s].peer
        IN  IF OtherHandles(h) # {}
            THEN /\ socks'[s].st = "connected"
                 /\ socks'[s].rx = socks[s].rx
                 /\ socks'[s].eof = socks[s].eof
                 /\ socks'[s].peer = p
                 /\ p # 0 => socks'[p] = socks[p]
                 /\ \A g \in OtherHandles(h) : handles'[g] = handles[g]
            ELSE /\ socks'[s].st = "free"
                 /\ p # 0 => (socks'[p].eof /\ socks'[p].peer = 0)

\* C28: a connection stays open while a handle of it exists: every stream
\* handle is on a connected socket, dropping the original or a clone changes
\* nothing for the handles that remain nor for the other end, and the socket
\* is released, with end-of-stream at the other end, exactly when its last
\* handle is dropped
C28_OpenWhileAnyHandleExists ==
    /\ [](\A h \in StreamHandles :
             /\ socks[handles[h].sock].st = "connected"
             /\ socks[handles[h].sock].refs = Cardinality(OtherHandles(h)) + 1)
    /\ [](\A s \in SockIds :
             (socks[s].st = "connected" /\ socks[s].eof) =>
                 \A g \in StreamHandles :
                    EndOf(socks, handles[g].sock)
                        # <<socks[s].conn, OtherSide(socks[s].side)>>)
    /\ [][DropStep]_vars

\* handle h is the only handle of its socket
OneHandle(h) == handles[h].kind # "none" /\ socks[handles[h].sock].refs = 1

\* a read, a write of one byte through the handle that connect returned
ReadOriginal == \E h \in HandleIds : handles[h].via = "connect" /\ Read(h, 1)

WriteOriginal ==
    \E h \in HandleIds : handles[h].via = "connect" /\ WriteMore(h, <<104>>, 1)

\* threads blocked in accept, read and write while other threads shut down
\* or drop clones: one connection and one clone of a handle at a time; the
\* connecting end reads and writes through its original handle, one byte more
\* than the accepting end holds, and the accepting end stays silent; the
\* clones are shut down and dropped at any time
NextRelease ==
    \/ \E p \in IoPaths : Bind(p)
    \/ \E p \in IoPaths : nconn = 0 /\ Connect(p)
    \/ \E l \in HandleIds : AcceptCall(l)
    \/ AcceptReturn
    \/ \E h \in HandleIds : handles[h].via = "connect" /\ OneHandle(h) /\ TryClone(h)
    \/ \E h \in HandleIds : handles[h].via = "bind" /\ OneHandle(h) /\ ListenerTryClone(h)
    \/ \E h \in HandleIds, how \in Shutdowns : handles[h].via = "clone" /\ Shutdown(h, how)
    \/ \E h \in HandleIds : handles[h].via = "clone" /\ Close(h)
    \/ WriteOriginal
    \/ ReadOriginal

\* a call that can return does return: the accept in progress, the read and
\* the write through the original handle
SpecRelease ==
    /\ Init /\ [][NextRelease]_vars
    /\ WF_vars(AcceptReturn)
    /\ WF_vars(ReadOriginal)
    /\ WF_vars(WriteOriginal)

\* the original stream was dropped and its clone has read a byte written by
\* the other end, which is still open
C28_Witness ==
    /\ ret.op = "read" /\ ret.res.ok /\ Len(ret.res.data) = 1
    /\ handles[ret.h].via = "clone"
    /\ OtherHandles(ret.h) = {}
    /\ ~socks[handles[ret.h].sock].eof
    /\ socks[handles[ret.h].sock].peer # 0
(***************************************************************************)
(* Claims about reading to the end, checked under SpecDrain                *)
(***************************************************************************)
\* the handles of socket s
HandlesOf(s) == {h \in StreamHandles : handles[h].sock = s}

\* a read on socket s has returned 0 with nothing left unread, and the reads
\* at this end have returned the bytes written to it, all and in order
ReadToEnd(s) ==
    /\ ret.op = "read" /\ ret.h \in HandlesOf(s)
    /\ ret.res.ok /\ ret.res.data = <<>>
    /\ socks[s].rx = <<>>
    /\ BytesOf(got[EndOf(socks, s)]) = sent[EndOf(socks, s)]

\* C30: once the last handle of the other end has been dropped, reading this
\* end in a loop comes to its end: the reads return every byte the other end
\* wrote, in order, and then a read returns 0; unless the reader's handle is
\* dropped first
C30_ReadToEndTerminates ==
    \A h \in HandleIds :
        (h \in StreamHandles /\ socks[handles[h].sock].peer = 0)
            ~> (h \notin StreamHandles \/ ReadToEnd(handles[h].sock))

\* the other end wrote a byte and was dropped; the reader has read the byte
\* and then end-of-stream
C30_Witness ==
    \E s \in SockIds :
        /\ socks[s].st = "connected" /\ socks[s].peer = 0
        /\ ReadToEnd(s)
        /\ Len(sent[EndOf(socks, s)]) = 1
(***************************************************************************)
(* Claims about releasing blocked calls, checked under SpecRelease         *)
(***************************************************************************)
\* the last call was a successful shutdown, in one of the directions hows,
\* through a clone of the handle that connect returned
ShutThroughClone(hows) ==
    /\ ret.op = "shutdown" /\ ret.res.ok /\ ret.arg[1] \in hows
    /\ handles[ret.h].via = "clone" /\ handles[ret.h].kind = "stream"

\* the last call was the drop of a clone of handle h, which is still there
ClosedThroughClone(h) ==
    /\ ret.op = "drop" /\ ret.h # h
    /\ handles[h].kind # "none" /\ ret.arg[1] = handles[h].sock

\* the last call, op, was made through the handle that connect returned
ByOriginal(op) == ret.op = op /\ handles[ret.h].via = "connect"

\* a read, a write through stream h would wait
ReadWaits(S, h) == Socket_read_outcomes(S, handles[h].sock, 1) = {}

WriteWaits(S, h) == NativeSendOutcomes(S, handles[h].sock, <<104>>, 1) = {}

\* the drop of a handle leaves every call through another handle of the same
\* socket waiting that was waiting
CloseReleasesNothing ==
    \A h \in HandleIds :
        (ret'.op = "drop" /\ ret' # ret /\ ret'.h # h
            /\ handles[h].kind # "none" /\ ret'.arg[1] = handles[h].sock)
        => /\ handles'[h] = handles[h]
           /\ handles[h].kind = "stream" /\ ReadWaits(socks, h) => ReadWaits(socks', h)
           /\ handles[h].kind = "stream" /\ WriteWaits(socks, h) => WriteWaits(socks', h)
           /\ handles[h].kind = "listener"
                  /\ NativeAcceptOutcomes(socks, handles[h].sock) = {}
              => NativeAcceptOutcomes(socks', handles[h].sock) = {}

\* C27 (amended): a thread in a read on a stream is released when another
\* thread shuts down the receiving direction through a clone, the read then
\* returns Ok, 0 at the end of the bytes; a thread in a write is released when
\* another thread shuts down the sending direction through a clone, the write
\* returns an error.  The drop of a clone releases no call that waits through
\* another handle of the socket.
C27_ReleasedByShutdown ==
    /\ ShutThroughClone({"Read", "Both"}) ~> (ByOriginal("read") /\ ret.res.ok)
    /\ ShutThroughClone({"Write", "Both"}) ~> (ByOriginal("write") /\ ~ret.res.ok)
    /\ [][CloseReleasesNothing]_vars

\* C27: a thread blocked in accept, or in a read or a write on a handle, is
\* released when another thread shuts down or closes the connection through
\* a clone: the blocked call returns in the end
C27_BlockedCallReleased ==
    /\ (\E h \in StreamHandles :
           handles[h].via = "connect" /\ ReadWaits(socks, h) /\ ClosedThroughClone(h))
          ~> ByOriginal("read")
    /\ (\E h \in StreamHandles :
           handles[h].via = "connect" /\ WriteWaits(socks, h) /\ ClosedThroughClone(h))
          ~> ByOriginal("write")
    /\ (inflight # 0 /\ ClosedThroughClone(inflight)) ~> (inflight = 0)
    /\ ShutThroughClone({"Read", "Both"}) ~> ByOriginal("read")
    /\ ShutThroughClone({"Write", "Both"}) ~> ByOriginal("write")

\* a read has returned 0 on a connection whose other end is open and has
\* sent nothing that is unread: the receiving direction was shut down, and a
\* clone of the reading handle is there
C27_Witness ==
    /\ ret.op = "read" /\ ret.res.ok /\ ret.res.data = <<>>
    /\ LET s == handles[ret.h].sock
       IN  /\ socks[s].shut_rd /\ ~socks[s].eof /\ socks[s].peer # 0
           /\ \E g \in StreamHandles : g # ret.h /\ handles[g].sock = s
=============================================================================
